---- MODULE Spec2Model ----
(***************************************************************************)
(* Reference frames, timelines and timeline phases of the Celestia engine  *)
(* (src/celengine/frame.cpp, timeline.h, timelinephase.cpp).               *)
(*                                                                         *)
(* Times are integers counted in units of ANGULAR_VELOCITY_DIFF_DELTA      *)
(* (1/1440 Julian day).  Orientations are rotations about one fixed axis,  *)
(* an angle counted in units of 1/NumAngles of a turn, so that quaternion  *)
(* composition is addition and conjugation is negation, modulo NumAngles.  *)
(***************************************************************************)
EXTENDS Integers, Sequences, FiniteSets, TLC

(***************************************************************************)
(* Bounds of the model.                                                    *)
(***************************************************************************)
MaxTime == 1

NumAngles == 3

(***************************************************************************)
(* Program constants.                                                      *)
(***************************************************************************)
\* frame.cpp:29, the differentiation step; it is the unit of time here.
ANGULAR_VELOCITY_DIFF_DELTA == 1

\* frame.cpp:453, lastTime(-1.0e50): a time before every other time.
InitLastTime == -1

VARIABLES
    frameOrient,   \* the frame's immutable configuration: what computeOrientation yields at each time
    cf,            \* the CachingFrame object's mutable cache fields
    computed,      \* the times computeOrientation was invoked at during the last public call
    call,          \* the last public call on the caching frame: [op, t, ret]
    prevCall       \* the public call before it: [op, t]

VARIABLES
    solarSystems,   \* the stars the universe holds a SolarSystem (and its frame tree) for
    bodyFrameTrees, \* the bodies that own a FrameTree
    treeChildren,   \* per frame tree (named by its owning body or star), the phases added to it
    phases,         \* the TimelinePhase objects created so far, in creation order
    lastCreate      \* the last CreateTimelinePhase call: its arguments and its result

VARIABLES
    timeline,       \* Timeline::phases of one body's timeline
    tlCall          \* the last call on the timeline: its arguments, its result, the phases before it

VARIABLES
    orbitFrame,     \* per body, the orbit frame of its phase at time 0.0 (Body::getOrbitFrame(0.0))
    bodyFrame,      \* per body, the body frame of its phase at time 0.0 (Body::getBodyFrame(0.0))
    laterOrbitFrame, \* per body, the orbit frame of its phase at a later time
    laterBodyFrame, \* per body, the body frame of its phase at a later time
    frameCall       \* the last query on a reference frame: its arguments and its outcome

VARIABLES
    assertsEnabled, \* the build: whether assert() is compiled in (NDEBUG not defined)
    tvFrame,        \* a TwoVectorFrame: its construction outcome and its axes
    tvCall          \* the last computeOrientation call on it: the two directions and the result

VARIABLES
    convCall        \* the last astrocentric conversion: the frame, the time's values, the input, the result

VARIABLES
    rm,             \* a rotation model's immutable configuration: its hooks' values, its period
    crm,            \* the CachingRotationModel object's mutable cache fields
    rmCall          \* the last call on the rotation model: its time and what it returned

VARIABLES
    g_logger,       \* Logger::g_logger: the address of the global logger, or nullptr
    loggers,        \* the Logger objects allocated so far, by address; a deleted one is not alive
    logCall         \* the last logger call: its arguments, its outcome, the pointer returned

VARIABLES
    manager,        \* a UserCategoryManager: its categories, roots, active set, free ids and maps
    catCall         \* the last call on the manager: its arguments and what it returned

VARIABLES
    ucCall          \* the last operation on universal coordinates: its operands and its result

cacheVars == <<frameOrient, cf, computed, call, prevCall>>

universeVars == <<solarSystems, bodyFrameTrees, treeChildren, phases, lastCreate>>

timelineVars == <<timeline, tlCall>>

frameVars == <<orbitFrame, bodyFrame, laterOrbitFrame, laterBodyFrame, frameCall>>

twoVectorVars == <<assertsEnabled, tvFrame, tvCall>>

convertVars == <<convCall>>

coordVars == <<ucCall>>

categoryVars == <<manager, catCall>>

rotationVars == <<rm, crm, rmCall>>

loggerVars == <<g_logger, loggers, logCall>>

vars == <<frameOrient, cf, computed, call, prevCall,
          solarSystems, bodyFrameTrees, treeChildren, phases, lastCreate,
          timeline, tlCall, orbitFrame, bodyFrame, laterOrbitFrame, laterBodyFrame,
          frameCall, assertsEnabled, tvFrame, tvCall,
          convCall,
          ucCall,
          manager, catCall,
          rm, crm, rmCall,
          g_logger, loggers, logCall>>

(***************************************************************************)
(* Orientations and their differentiation.                                 *)
(***************************************************************************)
Angles == 0 .. (NumAngles - 1)

\* Quaterniond::Identity()
Identity == 0

\* q.conjugate()
Conjugate(q) == (NumAngles - q) % NumAngles

\* a * b for rotations about the common axis
Compose(a, b) == (a + b) % NumAngles

\* The times a caller may pass, and the times computeOrientation is asked for.
TimeArgs == {InitLastTime} \cup (0 .. MaxTime)

\* tjd + ANGULAR_VELOCITY_DIFF_DELTA in double precision: the step is
\* absorbed at -1.0e50.
PlusDelta(t) == IF t = InitLastTime THEN t ELSE t + ANGULAR_VELOCITY_DIFF_DELTA

OrientDomain == TimeArgs \cup {PlusDelta(t) : t \in TimeArgs}

\* The pure virtual hook CachingFrame::computeOrientation: a function of the
\* time and of the frame's construction-time state only.
computeOrientation(t) == frameOrient[t]

\* dq = q0.conjugate() * q1; zero when |dq.w| > 0.99999999, else
\* axis * (2 acos(dq.w) / delta): the angle of dq per time step.
Differentiate(q0, q1) == Compose(Conjugate(q0), q1)

(***************************************************************************)
(* CachingFrame                                                            *)
(***************************************************************************)
\* CachingFrame::CachingFrame
NewCachingFrame ==
    [ lastTime |-> InitLastTime,
      lastOrientation |-> Identity,
      lastAngularVelocity |-> 0,
      orientationCacheValid |-> FALSE,
      angularVelocityCacheValid |-> FALSE ]

\* The state of one call in progress: the cache fields and the log of
\* computeOrientation invocations made so far.
Running(c, log) == [c |-> c, log |-> log]

\* A plausible slip: the cached value is reused whenever the valid flag is
\* set, whatever the time asked for.
getOrientationNoTimeCheck(r, tjd) ==
    IF ~r.c.orientationCacheValid
    THEN Running([r.c EXCEPT !.lastTime = tjd,
                             !.lastOrientation = computeOrientation(tjd),
                             !.orientationCacheValid = TRUE],
                 Append(r.log, tjd))
    ELSE r

\* CachingFrame::getOrientation; the value returned is .c.lastOrientation.
getOrientation(r, tjd) ==
    IF tjd # r.c.lastTime
    THEN Running([r.c EXCEPT !.lastTime = tjd,
                             !.lastOrientation = computeOrientation(tjd),
                             !.orientationCacheValid = TRUE,
                             !.angularVelocityCacheValid = FALSE],
                 Append(r.log, tjd))
    ELSE IF ~r.c.orientationCacheValid
    THEN Running([r.c EXCEPT !.lastOrientation = computeOrientation(tjd),
                             !.orientationCacheValid = TRUE],
                 Append(r.log, tjd))
    ELSE r

\* A plausible slip: q1 is taken through the cache as well.
computeAngularVelocityThroughCache(r, tjd) ==
    LET r0 == getOrientation(r, tjd)
        q0 == r0.c.lastOrientation
        r1 == getOrientation(r0, PlusDelta(tjd))
        q1 == r1.c.lastOrientation
    IN  [ run |-> r1, value |-> Differentiate(q0, q1) ]

\* CachingFrame::computeAngularVelocity (the default): q0 through the cache,
\* q1 through the uncached hook.  Yields the call state and the value.
computeAngularVelocity(r, tjd) ==
    LET r0 == getOrientation(r, tjd)
        q0 == r0.c.lastOrientation
        q1 == computeOrientation(PlusDelta(tjd))
    IN  [ run |-> Running(r0.c, Append(r0.log, PlusDelta(tjd))),
          value |-> Differentiate(q0, q1) ]

\* CachingFrame::getAngularVelocity; the value returned is
\* .c.lastAngularVelocity.
getAngularVelocity(r, tjd) ==
    IF tjd # r.c.lastTime
    THEN LET av == computeAngularVelocity(Running([r.c EXCEPT !.lastTime = tjd], r.log), tjd)
         IN  Running([av.run.c EXCEPT !.lastAngularVelocity = av.value,
                                      !.orientationCacheValid = FALSE,
                                      !.angularVelocityCacheValid = TRUE],
                     av.run.log)
    ELSE IF ~r.c.angularVelocityCacheValid
    THEN LET av == computeAngularVelocity(r, tjd)
         IN  Running([av.run.c EXCEPT !.lastAngularVelocity = av.value,
                                      !.angularVelocityCacheValid = TRUE],
                     av.run.log)
    ELSE r

NoCall == [op |-> "none", t |-> InitLastTime]

\* A caller asks the frame for its orientation at tjd.
GetOrientation(tjd) ==
    LET r == getOrientation(Running(cf, <<>>), tjd)
    IN  /\ cf' = r.c
        /\ computed' = r.log
        /\ call' = [op |-> "getOrientation", t |-> tjd, ret |-> r.c.lastOrientation]
        /\ prevCall' = [op |-> call.op, t |-> call.t]
        /\ UNCHANGED frameOrient

\* A caller asks the frame for its angular velocity at tjd.
GetAngularVelocity(tjd) ==
    LET r == getAngularVelocity(Running(cf, <<>>), tjd)
    IN  /\ cf' = r.c
        /\ computed' = r.log
        /\ call' = [op |-> "getAngularVelocity", t |-> tjd, ret |-> r.c.lastAngularVelocity]
        /\ prevCall' = [op |-> call.op, t |-> call.t]
        /\ UNCHANGED frameOrient

(***************************************************************************)
(* Selections                                                              *)
(***************************************************************************)
Stars == {"s1"}

Bodies == {"b1", "b2"}

Locations == {"l1", "l2"}

DeepSkyObjects == {"d1"}

\* nullptr
Null == "null"

\* A Selection: the object's type and the object.
Sel(type, id) == [type |-> type, id |-> id]

NoSelection == Sel("None", Null)

Selections ==
    {NoSelection}
        \cup {Sel("Star", s) : s \in Stars}
        \cup {Sel("Body", b) : b \in Bodies}
        \cup {Sel("Location", l) : l \in Locations}
        \cup {Sel("DeepSkyObject", d) : d \in DeepSkyObjects}

\* Selection::body()
body(sel) == IF sel.type = "Body" THEN sel.id ELSE Null

\* Selection::star()
star(sel) == IF sel.type = "Star" THEN sel.id ELSE Null

\* Selection::location()
location(sel) == IF sel.type = "Location" THEN sel.id ELSE Null

\* Location::getParentBody: l1 lies on b1, l2 has no parent body.
getParentBody(l) == IF l = "l1" THEN "b1" ELSE Null

(***************************************************************************)
(* TimelinePhase::CreateTimelinePhase                                      *)
(***************************************************************************)
\* The sentinel CreateTimelinePhase returns instead of a phase.
NullPhase == 0

\* A plausible slip: only a reversed range is refused, an empty one is not.
TimeRangeReversed(startTime, endTime) == endTime < startTime

\* "Validate the time range": the ranges that are refused.
TimeRangeInvalid(startTime, endTime) == endTime <= startTime

\* A plausible slip: a location is resolved to a body, as getFrameDepth
\* resolves it to its parent body.
FrameTreeOwnerViaLocation(center) ==
    IF body(center) # Null THEN body(center)
    ELSE IF star(center) # Null THEN star(center)
    ELSE IF center.type = "Location" THEN CHOOSE b \in Bodies : TRUE
    ELSE Null

\* The frame tree a phase with this orbit frame centre is added to, named by
\* the body or the star that owns it; Null when the centre is neither.
FrameTreeOwner(center) ==
    IF body(center) # Null THEN body(center)
    ELSE IF star(center) # Null THEN star(center)
    ELSE Null

\* A plausible slip: the phase is added to the tree twice.
addChildTwice(children, owner, phase) ==
    [children EXCEPT ![owner] = Append(Append(@, phase), phase)]

\* FrameTree::addChild
addChild(children, owner, phase) ==
    [children EXCEPT ![owner] = Append(@, phase)]

\* TimelinePhase::TimelinePhase
NewTimelinePhase(_body, _startTime, _endTime, _orbitFrameCenter, _owner) ==
    [ m_body |-> _body,
      m_startTime |-> _startTime,
      m_endTime |-> _endTime,
      m_orbitFrameCenter |-> _orbitFrameCenter,
      m_owner |-> _owner ]

CreateCall(b, startTime, endTime, center, result) ==
    [ body |-> b, startTime |-> startTime, endTime |-> endTime,
      center |-> center, result |-> result ]

\* A plausible slip: the frame tree is looked up, and so created, before the
\* time range is validated.
CreateTimelinePhaseTreeFirst(b, startTime, endTime, center) ==
    IF FrameTreeOwner(center) = Null
    THEN /\ lastCreate' = CreateCall(b, startTime, endTime, center, NullPhase)
         /\ UNCHANGED <<solarSystems, bodyFrameTrees, treeChildren, phases>>
    ELSE LET owner == FrameTreeOwner(center)
             id == Len(phases) + 1
         IN  /\ bodyFrameTrees' = IF body(center) # Null
                                  THEN bodyFrameTrees \cup {owner}
                                  ELSE bodyFrameTrees
             /\ solarSystems' = IF body(center) # Null
                                THEN solarSystems
                                ELSE solarSystems \cup {owner}
             /\ IF TimeRangeInvalid(startTime, endTime)
                THEN /\ lastCreate' = CreateCall(b, startTime, endTime, center, NullPhase)
                     /\ UNCHANGED <<treeChildren, phases>>
                ELSE /\ phases' = Append(phases, NewTimelinePhase(b, startTime, endTime, center, owner))
                     /\ treeChildren' = addChild(treeChildren, owner, id)
                     /\ lastCreate' = CreateCall(b, startTime, endTime, center, id)

\* TimelinePhase::CreateTimelinePhase(universe, body, startTime, endTime,
\* orbitFrame, ...), with center = orbitFrame->getCenter().
CreateTimelinePhase(b, startTime, endTime, center) ==
    IF TimeRangeInvalid(startTime, endTime) \/ FrameTreeOwner(center) = Null
    THEN /\ lastCreate' = CreateCall(b, startTime, endTime, center, NullPhase)
         /\ UNCHANGED <<solarSystems, bodyFrameTrees, treeChildren, phases>>
    ELSE LET owner == FrameTreeOwner(center)
             id == Len(phases) + 1
         IN  \* Body::getOrCreateFrameTree, Universe::getOrCreateSolarSystem
             /\ bodyFrameTrees' = IF body(center) # Null
                                  THEN bodyFrameTrees \cup {owner}
                                  ELSE bodyFrameTrees
             /\ solarSystems' = IF body(center) # Null
                                THEN solarSystems
                                ELSE solarSystems \cup {owner}
             /\ phases' = Append(phases, NewTimelinePhase(b, startTime, endTime, center, owner))
             /\ treeChildren' = addChild(treeChildren, owner, id)
             /\ lastCreate' = CreateCall(b, startTime, endTime, center, id)

(***************************************************************************)
(* Timeline (timeline.h declares it; its member functions are modelled     *)
(* from the specification, sections 3, 4.5 and 8).                         *)
(***************************************************************************)
\* A variant: the interval is taken closed at its end.
phaseIncludesClosed(phase, t) == phase.m_startTime <= t /\ t <= phase.m_endTime

\* TimelinePhase::includes: the phase's interval is [startTime, endTime).
phaseIncludes(phase, t) == phase.m_startTime <= t /\ t < phase.m_endTime

\* Timeline::phaseCount
phaseCount(tl) == Len(tl)

\* Timeline::findPhase: the position (1 ..) of the phase whose interval
\* contains t, searched in time order; NullPhase when no phase contains t.
findPhase(tl, t) ==
    IF \E n \in 1 .. phaseCount(tl) : phaseIncludes(tl[n], t)
    THEN CHOOSE n \in 1 .. phaseCount(tl) :
             /\ phaseIncludes(tl[n], t)
             /\ \A k \in 1 .. (n - 1) : ~phaseIncludes(tl[k], t)
    ELSE NullPhase

\* Timeline::startTime: the first phase's start.
startTime(tl) == tl[1].m_startTime

\* Timeline::endTime: the last phase's end.
endTime(tl) == tl[phaseCount(tl)].m_endTime

\* A variant: the end instant is counted in.
includesClosed(tl, t) == startTime(tl) <= t /\ t <= endTime(tl)

\* Timeline::includes
includes(tl, t) == startTime(tl) <= t /\ t < endTime(tl)

\* A variant: the phase is appended whatever its start.
appendPhaseUnchecked(tl, phase) == [ok |-> TRUE, phases |-> Append(tl, phase)]

\* Timeline::appendPhase: refused when the phase starts before the end of
\* the current last phase.  Yields the result and the phases afterwards.
appendPhase(tl, phase) ==
    IF phaseCount(tl) > 0 /\ phase.m_startTime < endTime(tl)
    THEN [ok |-> FALSE, phases |-> tl]
    ELSE [ok |-> TRUE, phases |-> Append(tl, phase)]

TimelineCall(op, t, phase, result, before) ==
    [op |-> op, t |-> t, phase |-> phase, result |-> result, before |-> before]

NoPhase == NewTimelinePhase(Null, 0, 0, NoSelection, Null)

\* The owner of the timeline appends a phase that CreateTimelinePhase made.
AppendPhase(startT, endT) ==
    LET b == CHOOSE x \in Bodies : TRUE
        c == Sel("Star", CHOOSE x \in Stars : TRUE)
        phase == NewTimelinePhase(b, startT, endT, c, FrameTreeOwner(c))
        r == appendPhase(timeline, phase)
    IN  /\ ~TimeRangeInvalid(startT, endT)
        /\ timeline' = r.phases
        /\ tlCall' = TimelineCall("appendPhase", startT, phase, r.ok, timeline)

\* A caller looks up the phase at time t.
FindPhase(t) ==
    /\ phaseCount(timeline) > 0
    /\ tlCall' = TimelineCall("findPhase", t, NoPhase, findPhase(timeline, t), timeline)
    /\ UNCHANGED timeline

\* A caller asks whether the timeline includes time t.
Includes(t) ==
    /\ phaseCount(timeline) > 0
    /\ tlCall' = TimelineCall("includes", t, NoPhase, includes(timeline, t), timeline)
    /\ UNCHANGED timeline

(***************************************************************************)
(* Reference frames and frame vectors                                      *)
(***************************************************************************)
\* FrameVector::createRelativePositionVector
createRelativePositionVector(_observer, _target) ==
    [vecType |-> "RelativePosition", observer |-> _observer, target |-> _target,
     frame |-> [kind |-> "nullptr"]]

\* FrameVector::createRelativeVelocityVector
createRelativeVelocityVector(_observer, _target) ==
    [vecType |-> "RelativeVelocity", observer |-> _observer, target |-> _target,
     frame |-> [kind |-> "nullptr"]]

\* FrameVector::createConstantVector; _frame may be the null pointer.
createConstantVector(_frame) ==
    [vecType |-> "ConstantVector", observer |-> NoSelection, target |-> NoSelection,
     frame |-> _frame]

\* A null ReferenceFrame::SharedConstPtr
NullFrame == [kind |-> "nullptr"]

\* J2000EclipticFrame::J2000EclipticFrame
J2000EclipticFrame(center) == [kind |-> "J2000Ecliptic", center |-> center]

\* J2000EquatorFrame::J2000EquatorFrame
J2000EquatorFrame(center) == [kind |-> "J2000Equator", center |-> center]

\* BodyFixedFrame::BodyFixedFrame
BodyFixedFrame(center, obj) == [kind |-> "BodyFixed", center |-> center, fixObject |-> obj]

\* BodyMeanEquatorFrame::BodyMeanEquatorFrame(center, obj)
BodyMeanEquatorFrame(center, obj) ==
    [kind |-> "BodyMeanEquator", center |-> center, equatorObject |-> obj, isFrozen |-> FALSE]

\* BodyMeanEquatorFrame::BodyMeanEquatorFrame(center, obj, freeze)
FrozenBodyMeanEquatorFrame(center, obj) ==
    [kind |-> "BodyMeanEquator", center |-> center, equatorObject |-> obj, isFrozen |-> TRUE]

\* TwoVectorFrame::TwoVectorFrame
TwoVectorFrame(center, prim, sec) ==
    [kind |-> "TwoVector", center |-> center, primaryVector |-> prim, secondaryVector |-> sec]

\* ReferenceFrame::getCenter
getCenter(f) == f.center

\* What a call yields when it dereferences a null frame pointer.
Undefined == 0 - 1

\* std::max, once both calls have returned
MaxOf(m, n) ==
    IF m = Undefined \/ n = Undefined THEN Undefined
    ELSE IF m > n THEN m ELSE n

RECURSIVE frameNestingDepth(_, _, _, _)
RECURSIVE getFrameDepth(_, _, _, _)
RECURSIVE vectorNestingDepth(_, _, _)

\* getFrameDepth (static, frame.cpp)
getFrameDepth(sel, depth, maxDepth, frameType) ==
    IF depth > maxDepth THEN depth
    ELSE LET b == IF location(sel) # Null THEN getParentBody(location(sel)) ELSE body(sel)
         IN  IF b = Null THEN depth
             ELSE LET orbitFrameDepth ==
                          IF frameType = "PositionFrame"
                          THEN frameNestingDepth(orbitFrame[b], depth + 1, maxDepth, frameType)
                          ELSE depth
                      bodyFrameDepth ==
                          IF frameType = "OrientationFrame"
                          THEN frameNestingDepth(bodyFrame[b], depth + 1, maxDepth, frameType)
                          ELSE depth
                  IN  IF orbitFrameDepth = Undefined THEN Undefined
                      ELSE IF frameType = "PositionFrame" /\ orbitFrameDepth > maxDepth
                      THEN orbitFrameDepth
                      ELSE MaxOf(orbitFrameDepth, bodyFrameDepth)

\* FrameVector::nestingDepth
vectorNestingDepth(fv, depth, maxDepth) ==
    IF fv.vecType \in {"RelativePosition", "RelativeVelocity"}
    THEN LET n == getFrameDepth(fv.observer, depth, maxDepth, "PositionFrame")
         IN  IF n = Undefined THEN Undefined
             ELSE IF n > maxDepth THEN n
             ELSE MaxOf(getFrameDepth(fv.target, depth, maxDepth, "PositionFrame"), n)
    ELSE IF fv.vecType = "ConstantVector"
    THEN IF depth > maxDepth THEN depth
         ELSE IF fv.frame = NullFrame THEN Undefined
         ELSE frameNestingDepth(fv.frame, depth + 1, maxDepth, "OrientationFrame")
    ELSE depth

\* The virtual ReferenceFrame::nestingDepth(depth, maxDepth, frameType) of
\* J2000EclipticFrame, J2000EquatorFrame, BodyFixedFrame,
\* BodyMeanEquatorFrame and TwoVectorFrame.
frameNestingDepth(f, depth, maxDepth, frameType) ==
    LET n == getFrameDepth(getCenter(f), depth, maxDepth, "PositionFrame")
    IN  IF f.kind \in {"J2000Ecliptic", "J2000Equator"} THEN n
        ELSE IF n = Undefined THEN Undefined
        ELSE IF n > maxDepth THEN n
        ELSE IF f.kind = "BodyFixed"
        THEN MaxOf(getFrameDepth(f.fixObject, depth, maxDepth, "OrientationFrame"), n)
        ELSE IF f.kind = "BodyMeanEquator"
        THEN MaxOf(getFrameDepth(f.equatorObject, depth, maxDepth, "OrientationFrame"), n)
        ELSE LET n2 == MaxOf(vectorNestingDepth(f.primaryVector, depth, maxDepth), n)
             IN  IF n2 = Undefined THEN Undefined
                 ELSE IF n2 > maxDepth THEN n2
                 ELSE MaxOf(vectorNestingDepth(f.secondaryVector, depth, maxDepth), n2)

\* A plausible slip: the walk starts one level down.
nestingDepthFromOne(f, maxDepth, frameType) == frameNestingDepth(f, 1, maxDepth, frameType)

\* ReferenceFrame::nestingDepth(maxDepth, frameType)
nestingDepth(f, maxDepth, frameType) == frameNestingDepth(f, 0, maxDepth, frameType)

RECURSIVE isInertialWithin(_, _)

\* A plausible slip: a frozen mean equator frame is treated like an unfrozen
\* one.
isInertialIgnoringFreeze(f, budget) ==
    IF f.kind \in {"J2000Ecliptic", "J2000Equator"} THEN "true"
    ELSE IF f.kind = "BodyFixed" THEN "false"
    ELSE IF f.kind = "TwoVector" THEN "true"
    ELSE IF body(f.equatorObject) = Null THEN "true"
    ELSE IF budget = 0 THEN "unbounded"
    ELSE isInertialWithin(bodyFrame[body(f.equatorObject)], budget - 1)

\* isInertial() of each frame class; budget bounds the chain of body frames
\* followed, and "unbounded" reports a chain that never ends.
isInertialWithin(f, budget) ==
    IF f.kind \in {"J2000Ecliptic", "J2000Equator"} THEN "true"
    ELSE IF f.kind = "BodyFixed" THEN "false"
    ELSE IF f.kind = "TwoVector" THEN "true"
    ELSE IF f.isFrozen THEN "true"
    ELSE IF body(f.equatorObject) = Null THEN "true"
    ELSE IF budget = 0 THEN "unbounded"
    ELSE isInertialWithin(bodyFrame[body(f.equatorObject)], budget - 1)

\* ReferenceFrame::isInertial.  A chain of body frames longer than the number
\* of bodies passes through one body twice and so never ends.
isInertial(f) == isInertialWithin(f, Cardinality(Bodies))

\* The orbit frames and the body frames bodies are given, and the frames
\* callers query.
OrbitFrameSet ==
    LET s1 == Sel("Star", "s1")
        b1 == Sel("Body", "b1")
        b2 == Sel("Body", "b2")
        l2 == Sel("Location", "l2")
    IN  { J2000EclipticFrame(s1),
          J2000EclipticFrame(b1),
          J2000EquatorFrame(b2),
          BodyFixedFrame(s1, b1),
          TwoVectorFrame(s1, createRelativePositionVector(b1, s1),
                             createRelativeVelocityVector(l2, b2)),
          TwoVectorFrame(s1, createConstantVector(NullFrame),
                             createRelativePositionVector(s1, b1)) }

BodyFrameSet ==
    LET s1 == Sel("Star", "s1")
        b1 == Sel("Body", "b1")
        b2 == Sel("Body", "b2")
        l1 == Sel("Location", "l1")
        l2 == Sel("Location", "l2")
    IN  { J2000EquatorFrame(b2),
          BodyFixedFrame(s1, b1),
          BodyFixedFrame(b2, l1),
          BodyMeanEquatorFrame(s1, b2),
          FrozenBodyMeanEquatorFrame(s1, b1),
          TwoVectorFrame(s1, createRelativePositionVector(b1, s1),
                             createRelativeVelocityVector(l2, b2)),
          TwoVectorFrame(s1, createConstantVector(J2000EquatorFrame(b2)),
                             createConstantVector(BodyFixedFrame(s1, b1))) }

FrameSet ==
    OrbitFrameSet \cup BodyFrameSet
        \cup {BodyMeanEquatorFrame(Sel("Star", "s1"), Sel("Star", "s1"))}

FrameTypes == {"PositionFrame", "OrientationFrame"}

FrameCall(op, f, maxDepth, frameType, outcome, depth, inertial) ==
    [op |-> op, frame |-> f, maxDepth |-> maxDepth, frameType |-> frameType,
     outcome |-> outcome, depth |-> depth, inertial |-> inertial]

\* A caller asks a frame for its nesting depth.  Dereferencing a null frame
\* pointer is undefined behaviour: the call crashes or returns any unsigned
\* value, maxDepth + 2 standing for every value beyond maxDepth + 1.
NestingDepth(f, maxDepth, frameType) ==
    LET d == nestingDepth(f, maxDepth, frameType)
    IN  /\ \/ /\ d # Undefined
              /\ frameCall' = FrameCall("nestingDepth", f, maxDepth, frameType, "returned", d, FALSE)
           \/ /\ d = Undefined
              /\ frameCall' = FrameCall("nestingDepth", f, maxDepth, frameType, "crashed", 0, FALSE)
           \/ /\ d = Undefined
              /\ \E any \in 0 .. (maxDepth + 2) :
                     frameCall' = FrameCall("nestingDepth", f, maxDepth, frameType, "returned", any, FALSE)
        /\ UNCHANGED <<orbitFrame, bodyFrame, laterOrbitFrame, laterBodyFrame>>

\* A caller asks a frame whether it is inertial.  A chain of body frames
\* that never ends exhausts the stack.
IsInertial(f) ==
    LET r == isInertial(f)
    IN  /\ frameCall' = FrameCall("isInertial", f, 0, "PositionFrame",
                                  IF r = "unbounded" THEN "crashed" ELSE "returned",
                                  0, r = "true")
        /\ UNCHANGED <<orbitFrame, bodyFrame, laterOrbitFrame, laterBodyFrame>>

(***************************************************************************)
(* TwoVectorFrame: its axes and its orientation                            *)
(*                                                                         *)
(* A vector is kept as integer components v and a positive integer d, and  *)
(* stands for v / sqrt(d); normalising changes d only, so no square root   *)
(* is ever taken.                                                          *)
(***************************************************************************)
\* The largest coordinate of the directions the frame vectors yield; the
\* smallest is -1.
MaxCoord == 1

\* TwoVectorFrame::Tolerance, as 1 / Tolerance^2, in the resolution of the
\* directions above: the sine of the smallest angle permitted between the
\* two directions is 1 / sqrt(ToleranceInvSq).
ToleranceInvSq == 2

Abs(n) == IF n < 0 THEN 0 - n ELSE n

Scaled(v, d) == [v |-> v, d |-> d]

\* a.dot(b) of the integer components
Dot(a, b) == a[1] * b[1] + a[2] * b[2] + a[3] * b[3]

\* a.cross(b) of the integer components
CrossOf(a, b) ==
    << a[2] * b[3] - a[3] * b[2],
       a[3] * b[1] - a[1] * b[3],
       a[1] * b[2] - a[2] * b[1] >>

\* Vector3d::normalize: a zero vector is left as it is.
normalize(a) == IF Dot(a.v, a.v) > 0 THEN Scaled(a.v, Dot(a.v, a.v)) ELSE a

\* -a
negate(a) == Scaled(<<0 - a.v[1], 0 - a.v[2], 0 - a.v[3]>>, a.d)

\* a.cross(b)
cross(a, b) == Scaled(CrossOf(a.v, b.v), a.d * b.d)

\* A plausible slip: only a cross product of length zero is degenerate.
lengthIsZero(a) == Dot(a.v, a.v) = 0

\* length < Tolerance, with length = a.norm(): |v|^2 / d < 1 / ToleranceInvSq
lengthBelowTolerance(a) == Dot(a.v, a.v) * ToleranceInvSq < a.d

\* a / a.norm()
divideByLength(a) == Scaled(a.v, Dot(a.v, a.v))

\* A plausible slip: the third assertion is missing.
axesValidNoCollinearCheck(primAxis, secAxis) ==
    /\ primAxis # 0 /\ secAxis # 0
    /\ Abs(primAxis) <= 3 /\ Abs(secAxis) <= 3

\* The three assertions of the constructor.
axesValid(primAxis, secAxis) ==
    /\ primAxis # 0 /\ secAxis # 0
    /\ Abs(primAxis) <= 3 /\ Abs(secAxis) <= 3
    /\ Abs(primAxis) # Abs(secAxis)

NoTwoVectorFrame == [state |-> "none", primaryAxis |-> 0, secondaryAxis |-> 0, tertiaryAxis |-> 0]

\* TwoVectorFrame::TwoVectorFrame(center, prim, primAxis, sec, secAxis) in a
\* build with (asserts = TRUE) or without assert(): a failed assertion
\* aborts the program.
TwoVectorFrameAxes(primAxis, secAxis, asserts) ==
    IF asserts /\ ~axesValid(primAxis, secAxis)
    THEN [state |-> "aborted", primaryAxis |-> primAxis, secondaryAxis |-> secAxis,
          tertiaryAxis |-> 0]
    ELSE [state |-> "constructed", primaryAxis |-> primAxis, secondaryAxis |-> secAxis,
          tertiaryAxis |->
              IF Abs(primAxis) # 1 /\ Abs(secAxis) # 1 THEN 1
              ELSE IF Abs(primAxis) # 2 /\ Abs(secAxis) # 2 THEN 2
              ELSE 3]

\* Matrix3d m: its three rows before any is assigned.
Unassigned == Scaled(<<0, 0, 0>>, 0)

UnassignedMatrix == [i \in 0 .. 2 |-> Unassigned]

\* What an assignment to a row outside the matrix leaves behind.
OutOfBounds == [i \in 0 .. 2 |-> Scaled(<<0, 0, 0>>, 0 - 1)]

\* m.row(i) = a
setRow(m, i, a) ==
    IF m = OutOfBounds \/ i \notin 0 .. 2 THEN OutOfBounds ELSE [m EXCEPT ![i] = a]

\* Quaterniond::Identity(), as the matrix it stands for
IdentityMatrix ==
    [i \in 0 .. 2 |->
        Scaled(<<IF i = 0 THEN 1 ELSE 0, IF i = 1 THEN 1 ELSE 0, IF i = 2 THEN 1 ELSE 0>>, 1)]

IdentityOrientation == [kind |-> "identity", m |-> IdentityMatrix]

\* Quaterniond q(m) of a matrix with a row never assigned, or assigned
\* outside the matrix.
UndefinedOrientation == [kind |-> "undefined", m |-> UnassignedMatrix]

\* A plausible slip: the cross products are not reversed when the axes are
\* not in right hand order.
twoVectorOrientationNoReverse(fr, p, s) ==
    LET v0n == normalize(p)
        v1n == normalize(s)
        v0 == IF fr.primaryAxis < 0 THEN negate(v0n) ELSE v0n
        v1 == IF fr.secondaryAxis < 0 THEN negate(v1n) ELSE v1n
        v2 == cross(v0, v1)
    IN  IF lengthBelowTolerance(v2) THEN IdentityOrientation
        ELSE LET v2u == divideByLength(v2)
                 m == setRow(setRow(setRow(UnassignedMatrix,
                                           Abs(fr.primaryAxis) - 1, v0),
                                    Abs(fr.secondaryAxis) - 1, cross(v2u, v0)),
                             Abs(fr.tertiaryAxis) - 1, v2u)
             IN  IF m = OutOfBounds \/ \E i \in 0 .. 2 : m[i] = Unassigned
                 THEN UndefinedOrientation
                 ELSE [kind |-> "matrix", m |-> m]

\* TwoVectorFrame::computeOrientation, with p and s the directions
\* primaryVector.direction(tjd) and secondaryVector.direction(tjd).  The
\* orientation returned is kept as the matrix the quaternion is made from.
twoVectorOrientation(fr, p, s) ==
    LET v0n == normalize(p)
        v1n == normalize(s)
        v0 == IF fr.primaryAxis < 0 THEN negate(v0n) ELSE v0n
        v1 == IF fr.secondaryAxis < 0 THEN negate(v1n) ELSE v1n
        v2 == cross(v0, v1)
    IN  IF lengthBelowTolerance(v2) THEN IdentityOrientation
        ELSE LET v2u == divideByLength(v2)
                 rhAxis == IF Abs(fr.primaryAxis) + 1 > 3 THEN 1 ELSE Abs(fr.primaryAxis) + 1
                 rhOrder == rhAxis = Abs(fr.secondaryAxis)
                 m1 == setRow(UnassignedMatrix, Abs(fr.primaryAxis) - 1, v0)
                 m == IF rhOrder
                      THEN setRow(setRow(m1, Abs(fr.secondaryAxis) - 1, cross(v2u, v0)),
                                  Abs(fr.tertiaryAxis) - 1, v2u)
                      ELSE setRow(setRow(m1, Abs(fr.secondaryAxis) - 1, cross(v0, negate(v2u))),
                                  Abs(fr.tertiaryAxis) - 1, negate(v2u))
             IN  IF m = OutOfBounds \/ \E i \in 0 .. 2 : m[i] = Unassigned
                 THEN UndefinedOrientation
                 ELSE [kind |-> "matrix", m |-> m]

TwoVectorCall(op, p, s, outcome, result) ==
    [op |-> op, p |-> p, s |-> s, outcome |-> outcome, result |-> result]

NoTwoVectorCall ==
    TwoVectorCall("none", Scaled(<<0, 0, 0>>, 1), Scaled(<<0, 0, 0>>, 1), "returned",
                  IdentityOrientation)

\* A catalog loader constructs a two-vector frame.
ConstructTwoVectorFrame(primAxis, secAxis) ==
    /\ tvFrame.state = "none"
    /\ tvFrame' = TwoVectorFrameAxes(primAxis, secAxis, assertsEnabled)
    /\ UNCHANGED <<assertsEnabled, tvCall>>

\* A caller evaluates the frame's orientation at a time when its vectors
\* have the directions p and s.  A matrix with a row never assigned, or
\* assigned outside its storage, is undefined behaviour: the call crashes or
\* returns whatever the storage holds.
ComputeOrientation(p, s) ==
    LET q == twoVectorOrientation(tvFrame, Scaled(p, 1), Scaled(s, 1))
    IN  /\ tvFrame.state = "constructed"
        /\ \/ /\ q.kind # "undefined"
              /\ tvCall' = TwoVectorCall("computeOrientation", p, s, "returned", q)
           \/ /\ q.kind = "undefined"
              /\ tvCall' = TwoVectorCall("computeOrientation", p, s, "crashed", q)
           \/ /\ q.kind = "undefined"
              /\ tvCall' = TwoVectorCall("computeOrientation", p, s, "returned", q)
        /\ UNCHANGED <<assertsEnabled, tvFrame>>

(***************************************************************************)
(* UniversalCoord (univcoord.h)                                            *)
(*                                                                         *)
(* A fixed-point component (R128) is an integer count of the smallest      *)
(* step of a micro-light-year, CoordBits wide in two's complement.         *)
(* A double is kept as the same count of steps, rounded to MantissaBits    *)
(* significant bits.  R128 itself (celutil/r128.h) is modelled from the    *)
(* specification, sections 3 and 9.                                        *)
(***************************************************************************)
\* The width of a fixed-point component, in bits.
CoordBits == 4

\* The significant bits a double keeps.
MantissaBits == 2

\* astro::microLightYearsToKilometers(1.0), in whole kilometres.
KmPerMicroLightYear == 2

RECURSIVE Pow2(_)

Pow2(n) == IF n = 0 THEN 1 ELSE 2 * Pow2(n - 1)

MinFixed == 0 - Pow2(CoordBits - 1)

MaxFixed == Pow2(CoordBits - 1) - 1

FixedValues == MinFixed .. MaxFixed

\* The value an R128 holds after an operation whose exact result is n.
wrap(n) == ((n - MinFixed + 2 * Pow2(CoordBits)) % Pow2(CoordBits)) + MinFixed

\* R128 operator+
r128Add(a, b) == wrap(a + b)

\* R128 operator-
r128Sub(a, b) == wrap(a - b)

RECURSIVE roundMagnitude(_, _)

\* The double nearest to the magnitude m, ties to even; q is the weight of
\* the last bit kept.
roundMagnitude(m, q) ==
    IF m \div q >= Pow2(MantissaBits) THEN roundMagnitude(m, 2 * q)
    ELSE LET lower == (m \div q) * q
             rest == m - lower
         IN  IF 2 * rest < q THEN lower
             ELSE IF 2 * rest > q THEN lower + q
             ELSE IF (m \div q) % 2 = 0 THEN lower
             ELSE lower + q

\* The double nearest to n.
roundToDouble(n) == IF n < 0 THEN 0 - roundMagnitude(0 - n, 1) ELSE roundMagnitude(n, 1)

\* static_cast<double>(R128)
toDouble(x) == roundToDouble(x)

\* R128(double): values outside the range are clamped to its ends.
fromDouble(d) == IF d < MinFixed THEN MinFixed ELSE IF d > MaxFixed THEN MaxFixed ELSE d

\* d * astro::microLightYearsToKilometers(1.0), in double precision
microLightYearsToKilometers(d) == roundToDouble(d * KmPerMicroLightYear)

\* UniversalCoord(R128 _x, R128 _y, R128 _z)
UniversalCoord(_x, _y, _z) == [x |-> _x, y |-> _y, z |-> _z]

\* UniversalCoord::Zero
Zero == UniversalCoord(0, 0, 0)

\* A plausible slip: the z components are added.
coordSubtractSlip(uc0, uc1) ==
    UniversalCoord(r128Sub(uc0.x, uc1.x), r128Sub(uc0.y, uc1.y), r128Add(uc0.z, uc1.z))

\* operator+(const UniversalCoord&, const UniversalCoord&)
coordAdd(uc0, uc1) ==
    UniversalCoord(r128Add(uc0.x, uc1.x), r128Add(uc0.y, uc1.y), r128Add(uc0.z, uc1.z))

\* operator-(const UniversalCoord&, const UniversalCoord&)
coordSubtract(uc0, uc1) ==
    UniversalCoord(r128Sub(uc0.x, uc1.x), r128Sub(uc0.y, uc1.y), r128Sub(uc0.z, uc1.z))

\* UniversalCoord::offsetFromUly
offsetFromUly(this, uc) ==
    << toDouble(r128Sub(this.x, uc.x)),
       toDouble(r128Sub(this.y, uc.y)),
       toDouble(r128Sub(this.z, uc.z)) >>

\* UniversalCoord::offsetFromKm
offsetFromKm(this, uc) ==
    << microLightYearsToKilometers(toDouble(r128Sub(this.x, uc.x))),
       microLightYearsToKilometers(toDouble(r128Sub(this.y, uc.y))),
       microLightYearsToKilometers(toDouble(r128Sub(this.z, uc.z))) >>

\* UniversalCoord::CreateKm
CreateKm(v) ==
    LET vUly == << microLightYearsToKilometers(v[1]),
                   microLightYearsToKilometers(v[2]),
                   microLightYearsToKilometers(v[3]) >>
    IN  UniversalCoord(fromDouble(vUly[1]), fromDouble(vUly[2]), fromDouble(vUly[3]))

CoordCall(op, a, b, v, result) == [op |-> op, a |-> a, b |-> b, v |-> v, result |-> result]

NoCoordCall == CoordCall("none", Zero, Zero, <<0, 0, 0>>, Zero)

\* A caller adds two coordinates.
CoordAdd(a, b) == ucCall' = CoordCall("add", a, b, <<0, 0, 0>>, coordAdd(a, b))

\* A caller subtracts one coordinate from another.
CoordSubtract(a, b) == ucCall' = CoordCall("subtract", a, b, <<0, 0, 0>>, coordSubtract(a, b))

\* A caller asks for the offset of a from b in micro-light-years.
OffsetFromUly(a, b) == ucCall' = CoordCall("offsetFromUly", a, b, <<0, 0, 0>>, offsetFromUly(a, b))

\* A caller makes a coordinate from kilometres and reads it back as the
\* offset in kilometres from the origin.
CreateKmThenOffsetFromKm(v) ==
    ucCall' = CoordCall("CreateKm.offsetFromKm", CreateKm(v), Zero, v,
                        offsetFromKm(CreateKm(v), Zero))

(***************************************************************************)
(* ReferenceFrame::convertFromAstrocentric / convertToAstrocentric         *)
(*                                                                         *)
(* Positions are vectors of doubles, each an integer rounded to            *)
(* MantissaBits significant bits.  The frame's orientation at the time of  *)
(* the call is a number of quarter turns about the z axis, taken as a      *)
(* rotation whose matrix has the entries 0, 1 and -1 only, so that turning *)
(* a vector rounds nothing; sums and differences round.                    *)
(***************************************************************************)
QuarterTurns == 0 .. 3

\* q.conjugate()
turnBack(q) == (4 - q) % 4

RECURSIVE rotate(_, _)

\* q * p: the vector p turned by q
rotate(q, p) ==
    IF q = 0 THEN p ELSE rotate(q - 1, <<0 - p[2], p[1], p[3]>>)

\* a - b, in double precision
minus(a, b) ==
    <<roundToDouble(a[1] - b[1]), roundToDouble(a[2] - b[2]), roundToDouble(a[3] - b[3])>>

\* a + b, in double precision
plus(a, b) ==
    <<roundToDouble(a[1] + b[1]), roundToDouble(a[2] + b[2]), roundToDouble(a[3] + b[3])>>

\* Vector3d::Zero()
ZeroVector == <<0, 0, 0>>

\* A frame at the time tjd of a call: its centre, getOrientation(tjd), and
\* centerObject.body()->getAstrocentricPosition(tjd).
FrameAt(centerObject, orientation, centerPosition) ==
    [centerObject |-> centerObject, orientation |-> orientation,
     centerPosition |-> centerPosition]

\* A plausible slip: the branch for a star centre is missing.
convertFromAstrocentricBodyOnly(fr, p) ==
    IF fr.centerObject.type = "Body"
    THEN rotate(fr.orientation, minus(p, fr.centerPosition))
    ELSE ZeroVector

\* ReferenceFrame::convertFromAstrocentric
convertFromAstrocentric(fr, p) ==
    IF fr.centerObject.type = "Body"
    THEN rotate(fr.orientation, minus(p, fr.centerPosition))
    ELSE IF fr.centerObject.type = "Star"
    THEN rotate(fr.orientation, p)
    ELSE ZeroVector

\* ReferenceFrame::convertToAstrocentric
convertToAstrocentric(fr, p) ==
    IF fr.centerObject.type = "Body"
    THEN plus(fr.centerPosition, rotate(turnBack(fr.orientation), p))
    ELSE IF fr.centerObject.type = "Star"
    THEN rotate(turnBack(fr.orientation), p)
    ELSE ZeroVector

ConvertCall(op, fr, p, result) == [op |-> op, frame |-> fr, p |-> p, result |-> result]

NoConvertCall == ConvertCall("none", FrameAt(NoSelection, 0, ZeroVector), ZeroVector, ZeroVector)

\* A caller converts an astrocentric position into the frame.
ConvertFromAstrocentric(fr, p) ==
    convCall' = ConvertCall("convertFromAstrocentric", fr, p, convertFromAstrocentric(fr, p))

\* A caller converts a position in the frame into an astrocentric one.
ConvertToAstrocentric(fr, p) ==
    convCall' = ConvertCall("convertToAstrocentric", fr, p, convertToAstrocentric(fr, p))

(***************************************************************************)
(* ReferenceFrame::convertFromUniversal / convertToUniversal, for          *)
(* universal coordinates and for orientations.  Coordinates are rotated in *)
(* fixed point by the entries of the orientation's rotation matrix; for a  *)
(* quarter turn the entries are taken as exactly 0, 1 and -1, so that the  *)
(* products lose nothing but what leaves the range.                        *)
(***************************************************************************)
\* The cosine and the sine of q quarter turns.
cosTurn(q) == IF q = 0 THEN 1 ELSE IF q = 2 THEN 0 - 1 ELSE 0

sinTurn(q) == IF q = 1 THEN 1 ELSE IF q = 3 THEN 0 - 1 ELSE 0

\* q.toRotationMatrix(), the rows of the matrix of a turn about z
toRotationMatrix(q) ==
    << <<cosTurn(q), 0 - sinTurn(q), 0>>,
       <<sinTurn(q), cosTurn(q), 0>>,
       <<0, 0, 1>> >>

\* R128 operator* by R128(e) for a matrix entry e of 0, 1 or -1
r128Mul(a, e) == wrap(a * e)

\* rotate(uc, q): each component is the sum over a column of the matrix.
rotateFixed(uc, q) ==
    LET r == toRotationMatrix(q)
        column(j) == r128Add(r128Add(r128Mul(uc.x, r[1][j]), r128Mul(uc.y, r[2][j])),
                             r128Mul(uc.z, r[3][j]))
    IN  UniversalCoord(column(1), column(2), column(3))

\* A frame at the time tjd of a call: getOrientation(tjd) and
\* centerObject.getPosition(tjd).
UniversalFrameAt(orientation, position) ==
    [orientation |-> orientation, position |-> position]

\* ReferenceFrame::convertFromUniversal(const UniversalCoord&, double)
convertFromUniversal(fr, uc) ==
    rotateFixed(coordSubtract(uc, fr.position), turnBack(fr.orientation))

\* A plausible slip: the rotation back is by the conjugate as well.
convertToUniversalConjugate(fr, uc) ==
    coordAdd(fr.position, rotateFixed(uc, turnBack(fr.orientation)))

\* ReferenceFrame::convertToUniversal(const UniversalCoord&, double)
convertToUniversal(fr, uc) ==
    coordAdd(fr.position, rotateFixed(uc, fr.orientation))

\* ReferenceFrame::convertFromUniversal(const Quaterniond&, double):
\* q * getOrientation(tjd).conjugate()
convertOrientationFromUniversal(fr, q) == (q + turnBack(fr.orientation)) % 4

\* ReferenceFrame::convertToUniversal(const Quaterniond&, double):
\* q * getOrientation(tjd)
convertOrientationToUniversal(fr, q) == (q + fr.orientation) % 4

\* What a conversion and the opposite conversion of its result returned.
RoundTrip(there, back) == [there |-> there, back |-> back]

\* A caller converts a universal coordinate into the frame and back.
UniversalRoundTrip(fr, uc) ==
    LET there == convertFromUniversal(fr, uc)
    IN  convCall' = ConvertCall("convertFromUniversal", fr, uc,
                                RoundTrip(there, convertToUniversal(fr, there)))

\* A caller converts an orientation into the frame and back.
OrientationRoundTrip(fr, q) ==
    LET there == convertOrientationFromUniversal(fr, q)
    IN  convCall' = ConvertCall("convertFromUniversal(Quaterniond)", fr, q,
                                RoundTrip(there, convertOrientationToUniversal(fr, there)))

\* A caller converts an astrocentric position into the frame and back.
AstrocentricRoundTrip(fr, p) ==
    LET there == convertFromAstrocentric(fr, p)
    IN  convCall' = ConvertCall("convertFromAstrocentric; convertToAstrocentric", fr, p,
                                RoundTrip(there, convertToAstrocentric(fr, there)))

(***************************************************************************)
(* UserCategoryManager (celengine/category.h), as the unit tests of         *)
(* test/unit/category_test.cpp use it.  A category id is an index into the *)
(* manager's table of categories; a destroyed category leaves an empty     *)
(* slot whose id the next create takes.                                    *)
(***************************************************************************)
\* UserCategoryId::Invalid
Invalid == 0

\* The names categories are created with.
Names == {"foo", "bar", "baz"}

\* The objects put into categories.
Objects == {Sel("Star", "s1")}

\* manager.get(id) == nullptr
NoCategory == [name |-> "", parent |-> Invalid, children |-> <<>>, members |-> {}]

\* A category just created: no children, no members.
UserCategory(name, parent) ==
    [name |-> name, parent |-> parent, children |-> <<>>, members |-> {}]

\* UserCategoryManager manager;
NewManager ==
    [m_categories |-> <<>>,
     m_roots |-> {},
     m_active |-> {},
     m_available |-> <<>>,
     m_categoryMap |-> [n \in Names |-> Invalid],
     m_objectMap |-> [o \in Objects |-> <<>>]]

\* UserCategoryManager::get
get(m, id) ==
    IF id \in 1 .. Len(m.m_categories) THEN m.m_categories[id] ELSE NoCategory

\* UserCategoryManager::find
find(m, name) == m.m_categoryMap[name]

\* UserCategoryManager::roots
roots(m) == m.m_roots

\* UserCategoryManager::active
active(m) == m.m_active

\* The sequence without the entries equal to e.
Without(seq, e) == SelectSeq(seq, LAMBDA x : x # e)

\* A plausible slip: the check for a name already in use is missing.
createAllowingDuplicates(m, name, parent) ==
    IF parent # Invalid /\ get(m, parent) = NoCategory
    THEN [manager |-> m, ret |-> Invalid]
    ELSE LET reuse == m.m_available # <<>>
             id == IF reuse THEN m.m_available[Len(m.m_available)]
                   ELSE Len(m.m_categories) + 1
             slots == IF reuse THEN m.m_categories
                      ELSE Append(m.m_categories, NoCategory)
             linked == IF parent = Invalid THEN slots
                       ELSE [slots EXCEPT ![parent].children = Append(@, id)]
         IN  [manager |->
                  [m EXCEPT !.m_categories = [linked EXCEPT ![id] = UserCategory(name, parent)],
                            !.m_roots = IF parent = Invalid THEN @ \cup {id} ELSE @,
                            !.m_active = @ \cup {id},
                            !.m_available = IF reuse THEN SubSeq(@, 1, Len(@) - 1) ELSE @,
                            !.m_categoryMap = [@ EXCEPT ![name] = id]],
              ret |-> id]

\* UserCategoryManager::create: the manager afterwards and the id returned.
create(m, name, parent) ==
    IF parent # Invalid /\ get(m, parent) = NoCategory
    THEN [manager |-> m, ret |-> Invalid]
    ELSE IF m.m_categoryMap[name] # Invalid
    THEN [manager |-> m, ret |-> Invalid]
    ELSE LET reuse == m.m_available # <<>>
             id == IF reuse THEN m.m_available[Len(m.m_available)]
                   ELSE Len(m.m_categories) + 1
             slots == IF reuse THEN m.m_categories
                      ELSE Append(m.m_categories, NoCategory)
             linked == IF parent = Invalid THEN slots
                       ELSE [slots EXCEPT ![parent].children = Append(@, id)]
         IN  [manager |->
                  [m EXCEPT !.m_categories = [linked EXCEPT ![id] = UserCategory(name, parent)],
                            !.m_roots = IF parent = Invalid THEN @ \cup {id} ELSE @,
                            !.m_active = @ \cup {id},
                            !.m_available = IF reuse THEN SubSeq(@, 1, Len(@) - 1) ELSE @,
                            !.m_categoryMap = [@ EXCEPT ![name] = id]],
              ret |-> id]

\* A plausible slip: the check for child categories is missing.
destroyIgnoringChildren(m, id) ==
    IF get(m, id) = NoCategory
    THEN [manager |-> m, ok |-> FALSE]
    ELSE LET entry == get(m, id)
             unlinked == IF entry.parent = Invalid THEN m.m_categories
                         ELSE [m.m_categories EXCEPT ![entry.parent].children = Without(@, id)]
         IN  [manager |->
                  [m EXCEPT !.m_categories = [unlinked EXCEPT ![id] = NoCategory],
                            !.m_roots = @ \ {id},
                            !.m_active = @ \ {id},
                            !.m_available = Append(@, id),
                            !.m_categoryMap = [@ EXCEPT ![entry.name] = Invalid],
                            !.m_objectMap = [o \in Objects |->
                                                IF o \in entry.members THEN Without(@[o], id)
                                                ELSE @[o]]],
              ok |-> TRUE]

\* UserCategoryManager::destroy: the manager afterwards and the value returned.
destroy(m, id) ==
    IF get(m, id) = NoCategory
    THEN [manager |-> m, ok |-> FALSE]
    ELSE IF get(m, id).children # <<>>
    THEN [manager |-> m, ok |-> FALSE]
    ELSE LET entry == get(m, id)
             unlinked == IF entry.parent = Invalid THEN m.m_categories
                         ELSE [m.m_categories EXCEPT ![entry.parent].children = Without(@, id)]
         IN  [manager |->
                  [m EXCEPT !.m_categories = [unlinked EXCEPT ![id] = NoCategory],
                            !.m_roots = @ \ {id},
                            !.m_active = @ \ {id},
                            !.m_available = Append(@, id),
                            !.m_categoryMap = [@ EXCEPT ![entry.name] = Invalid],
                            !.m_objectMap = [o \in Objects |->
                                                IF o \in entry.members THEN Without(@[o], id)
                                                ELSE @[o]]],
              ok |-> TRUE]

\* UserCategoryManager::addObject: the manager afterwards and the value returned.
addObject(m, sel, id) ==
    IF get(m, id) = NoCategory \/ sel \in get(m, id).members
    THEN [manager |-> m, ok |-> FALSE]
    ELSE [manager |->
              [m EXCEPT !.m_categories = [@ EXCEPT ![id].members = @ \cup {sel}],
                        !.m_objectMap = [@ EXCEPT ![sel] = Append(@, id)]],
          ok |-> TRUE]

CategoryCall(op, name, id, ret, ok) ==
    [op |-> op, name |-> name, id |-> id, ret |-> ret, ok |-> ok]

\* manager.create(name, parent, {})
Create(name, parent) ==
    LET r == create(manager, name, parent)
    IN  /\ manager' = r.manager
        /\ catCall' = CategoryCall("create", name, parent, r.ret, r.ret # Invalid)

\* manager.destroy(id)
Destroy(id) ==
    LET r == destroy(manager, id)
    IN  /\ manager' = r.manager
        /\ catCall' = CategoryCall("destroy", "", id, Invalid, r.ok)

\* manager.addObject(sel, id)
AddObject(sel, id) ==
    LET r == addObject(manager, sel, id)
    IN  /\ manager' = r.manager
        /\ catCall' = CategoryCall("addObject", "", id, Invalid, r.ok)

(***************************************************************************)
(* RotationModel and CachingRotationModel (celephem/rotation.cpp)          *)
(*                                                                         *)
(* Times are counted in units of ANGULAR_VELOCITY_DIFF_DELTA, periods in   *)
(* the same unit.  An angular velocity axis * (angle / dt) is kept as the  *)
(* pair of the angle of dq and the step dt.                                *)
(***************************************************************************)
\* rotation.cpp:64, lastTime(365.0): a time callers may ask for as well.
RotationInitLastTime == 1

\* rotation.cpp:34, the divisor of the period.
PeriodDivisor == 10000

\* The periods of the periodic models; 0 stands for a model that is not periodic.
Periods == {0, PeriodDivisor, 2 * PeriodDivisor}

\* The largest differentiation step.
MaxDiffDelta == 2

\* The times a caller may pass.
RotationTimes == 0 .. MaxTime

\* The times the hooks are evaluated at.
RotationDomain == 0 .. (MaxTime + MaxDiffDelta)

\* The hooks' values over time: an angle that advances at a fixed rate.
HookFunctions ==
    {[t \in RotationDomain |-> (a + k * t) % NumAngles] : a \in Angles, k \in Angles}

RotationModels ==
    {[spinAt |-> sp, equatorAt |-> eq, period |-> p] :
        sp \in HookFunctions, eq \in HookFunctions, p \in Periods}

\* RotationModel::isPeriodic
isPeriodic(m) == m.period # 0

\* RotationModel::getPeriod
getPeriod(m) == m.period

\* chooseDiffTimeDelta
chooseDiffTimeDelta(m) ==
    IF isPeriodic(m) THEN getPeriod(m) \div PeriodDivisor ELSE ANGULAR_VELOCITY_DIFF_DELTA

\* The pure virtual hook CachingRotationModel::computeSpin
computeSpin(m, t) == m.spinAt[t]

\* The pure virtual hook CachingRotationModel::computeEquatorOrientation
computeEquatorOrientation(m, t) == m.equatorAt[t]

\* Vector3d::Zero() when |dq.w| > 0.99999999, else
\* dq.vec().normalized() * (2 acos(dq.w) / dt)
AngularVelocity(dq, dt) == IF dq = Identity THEN <<0, 1>> ELSE <<dq, dt>>

\* RotationModel::orientationAtTime of a model without a cache
orientationAtTime(m, t) == Compose(computeSpin(m, t), computeEquatorOrientation(m, t))

\* A plausible slip: the relative quaternion the other way round.
rotationAngularVelocityReversed(m, tdb) ==
    LET dt == chooseDiffTimeDelta(m)
        q0 == orientationAtTime(m, tdb)
        q1 == orientationAtTime(m, tdb + dt)
        dq == Compose(Conjugate(q0), q1)
    IN  AngularVelocity(dq, dt)

\* RotationModel::angularVelocityAtTime (the default)
rotationAngularVelocityAtTime(m, tdb) ==
    LET dt == chooseDiffTimeDelta(m)
        q0 == orientationAtTime(m, tdb)
        q1 == orientationAtTime(m, tdb + dt)
        dq == Compose(Conjugate(q1), q0)
    IN  AngularVelocity(dq, dt)

\* ReferenceFrame::getAngularVelocity of a frame whose getOrientation is
\* the model's orientation.
frameGetAngularVelocity(m, tjd) ==
    LET q0 == orientationAtTime(m, tjd)
        q1 == orientationAtTime(m, tjd + ANGULAR_VELOCITY_DIFF_DELTA)
        dq == Compose(Conjugate(q0), q1)
    IN  AngularVelocity(dq, ANGULAR_VELOCITY_DIFF_DELTA)

\* CachingRotationModel::CachingRotationModel
NewCachingRotationModel ==
    [ lastTime |-> RotationInitLastTime,
      lastSpin |-> Identity,
      lastEquator |-> Identity,
      lastAngularVelocity |-> <<0, 1>>,
      spinCacheValid |-> FALSE,
      equatorCacheValid |-> FALSE,
      angularVelocityCacheValid |-> FALSE ]

\* A plausible slip: a new time leaves the equator entry valid.
spinKeepingEquator(m, c, tjd) ==
    IF tjd # c.lastTime
    THEN [c EXCEPT !.lastTime = tjd,
                   !.lastSpin = computeSpin(m, tjd),
                   !.spinCacheValid = TRUE,
                   !.angularVelocityCacheValid = FALSE]
    ELSE IF ~c.spinCacheValid
    THEN [c EXCEPT !.lastSpin = computeSpin(m, tjd),
                   !.spinCacheValid = TRUE]
    ELSE c

\* CachingRotationModel::spin; the value returned is .lastSpin.
spin(m, c, tjd) ==
    IF tjd # c.lastTime
    THEN [c EXCEPT !.lastTime = tjd,
                   !.lastSpin = computeSpin(m, tjd),
                   !.spinCacheValid = TRUE,
                   !.equatorCacheValid = FALSE,
                   !.angularVelocityCacheValid = FALSE]
    ELSE IF ~c.spinCacheValid
    THEN [c EXCEPT !.lastSpin = computeSpin(m, tjd),
                   !.spinCacheValid = TRUE]
    ELSE c

\* A plausible slip: the cached value is reused whenever the valid flag is
\* set, whatever the time asked for.
equatorOrientationNoTimeCheck(m, c, tjd) ==
    IF ~c.equatorCacheValid
    THEN [c EXCEPT !.lastTime = tjd,
                   !.lastEquator = computeEquatorOrientation(m, tjd),
                   !.equatorCacheValid = TRUE]
    ELSE c

\* CachingRotationModel::equatorOrientationAtTime; the value returned is
\* .lastEquator.
equatorOrientationAtTime(m, c, tjd) ==
    IF tjd # c.lastTime
    THEN [c EXCEPT !.lastTime = tjd,
                   !.lastEquator = computeEquatorOrientation(m, tjd),
                   !.spinCacheValid = FALSE,
                   !.equatorCacheValid = TRUE,
                   !.angularVelocityCacheValid = FALSE]
    ELSE IF ~c.equatorCacheValid
    THEN [c EXCEPT !.lastEquator = computeEquatorOrientation(m, tjd),
                   !.equatorCacheValid = TRUE]
    ELSE c

\* CachingRotationModel::computeAngularVelocity (the default): q0 through
\* the cache (orientationAtTime is spin(tjd) * equatorOrientationAtTime(tjd)),
\* q1 through the uncached hooks.  Yields the cache and the value.
cachingComputeAngularVelocity(m, c, tjd) ==
    LET dt == chooseDiffTimeDelta(m)
        c1 == spin(m, c, tjd)
        c2 == equatorOrientationAtTime(m, c1, tjd)
        q0 == Compose(c1.lastSpin, c2.lastEquator)
        q1 == Compose(computeSpin(m, tjd + dt), computeEquatorOrientation(m, tjd + dt))
        dq == Compose(Conjugate(q1), q0)
    IN  [c |-> c2, value |-> AngularVelocity(dq, dt)]

\* CachingRotationModel::angularVelocityAtTime; the value returned is
\* .lastAngularVelocity.
cachingAngularVelocityAtTime(m, c, tjd) ==
    IF tjd # c.lastTime
    THEN LET av == cachingComputeAngularVelocity(m, c, tjd)
         IN  [av.c EXCEPT !.lastAngularVelocity = av.value,
                          !.lastTime = tjd,
                          !.spinCacheValid = FALSE,
                          !.equatorCacheValid = FALSE,
                          !.angularVelocityCacheValid = TRUE]
    ELSE IF ~c.angularVelocityCacheValid
    THEN LET av == cachingComputeAngularVelocity(m, c, tjd)
         IN  [av.c EXCEPT !.lastAngularVelocity = av.value,
                          !.angularVelocityCacheValid = TRUE]
    ELSE c

RotationCall(op, t, ret) == [op |-> op, t |-> t, ret |-> ret]

\* A caller asks the caching model for its spin at tjd.
Spin(tjd) ==
    LET c == spin(rm, crm, tjd)
    IN  /\ crm' = c
        /\ rmCall' = RotationCall("spin", tjd, c.lastSpin)
        /\ UNCHANGED rm

\* A caller asks the caching model for its equator orientation at tjd.
EquatorOrientationAtTime(tjd) ==
    LET c == equatorOrientationAtTime(rm, crm, tjd)
    IN  /\ crm' = c
        /\ rmCall' = RotationCall("equatorOrientationAtTime", tjd, c.lastEquator)
        /\ UNCHANGED rm

\* A caller asks the caching model for its angular velocity at tjd.
AngularVelocityAtTime(tjd) ==
    LET c == cachingAngularVelocityAtTime(rm, crm, tjd)
    IN  /\ crm' = c
        /\ rmCall' = RotationCall("angularVelocityAtTime", tjd, c.lastAngularVelocity)
        /\ UNCHANGED rm

\* A caller asks a model without a cache for its angular velocity at tdb.
RotationAngularVelocityAtTime(tdb) ==
    /\ rmCall' = RotationCall("RotationModel.angularVelocityAtTime", tdb,
                              rotationAngularVelocityAtTime(rm, tdb))
    /\ UNCHANGED <<rm, crm>>

\* A caller asks a frame without a cache for its angular velocity at tjd.
FrameGetAngularVelocity(tjd) ==
    /\ rmCall' = RotationCall("ReferenceFrame.getAngularVelocity", tjd,
                              frameGetAngularVelocity(rm, tjd))
    /\ UNCHANGED <<rm, crm>>

(***************************************************************************)
(* The global logger (celutil/logger.cpp, logger.h)                        *)
(*                                                                         *)
(* A Logger's address is its position in the sequence of the objects       *)
(* allocated so far.                                                       *)
(***************************************************************************)
\* nullptr, the initial value of Logger::g_logger
NullLogger == 0

\* enum class Level
Levels == {"Error", "Warning", "Info", "Verbose", "Debug"}

\* The streams a logger may be given.
Streams == {"clog", "cerr", "file"}

\* Logger::Logger(Level level, Stream &log, Stream &err)
Logger(level, log, err) == [m_level |-> level, m_log |-> log, m_err |-> err, alive |-> TRUE]

LoggerCall(op, level, outcome, ret) ==
    [op |-> op, level |-> level, outcome |-> outcome, ret |-> ret]

\* Whether the pointer refers to an object that has been deleted.
Dangling(ptr) == ptr # NullLogger /\ ~loggers[ptr].alive

\* GetLogger()
GetLogger ==
    /\ logCall' = LoggerCall("GetLogger", "Info", "returned", g_logger)
    /\ UNCHANGED <<g_logger, loggers>>

\* CreateLogger(Level level, Logger::Stream &log, Logger::Stream &err)
CreateLogger(level, log, err) ==
    IF g_logger = NullLogger
    THEN /\ loggers' = Append(loggers, Logger(level, log, err))
         /\ g_logger' = Len(loggers) + 1
         /\ logCall' = LoggerCall("CreateLogger", level, "returned", Len(loggers) + 1)
    ELSE /\ logCall' = LoggerCall("CreateLogger", level, "returned", g_logger)
         /\ UNCHANGED <<g_logger, loggers>>

\* CreateLogger(Level level)
CreateLoggerDefault(level) == CreateLogger(level, "clog", "cerr")

\* DestroyLogger(): delete Logger::g_logger.  Deleting a null pointer does
\* nothing; deleting an object a second time is undefined behaviour, the
\* call crashes or returns.
DestroyLogger ==
    IF g_logger = NullLogger
    THEN /\ logCall' = LoggerCall("DestroyLogger", "Info", "returned", NullLogger)
         /\ UNCHANGED <<g_logger, loggers>>
    ELSE IF loggers[g_logger].alive
    THEN /\ loggers' = [loggers EXCEPT ![g_logger].alive = FALSE]
         /\ logCall' = LoggerCall("DestroyLogger", "Info", "returned", NullLogger)
         /\ UNCHANGED g_logger
    ELSE /\ \E outcome \in {"crashed", "returned"} :
                logCall' = LoggerCall("DestroyLogger", "Info", outcome, NullLogger)
         /\ UNCHANGED <<g_logger, loggers>>

\* GetLogger()->setLevel(level), by a caller that checks for nullptr.  A
\* write through a pointer to a deleted object is undefined behaviour, the
\* call crashes or returns.
SetLevel(level) ==
    /\ g_logger # NullLogger
    /\ IF loggers[g_logger].alive
       THEN /\ loggers' = [loggers EXCEPT ![g_logger].m_level = level]
            /\ logCall' = LoggerCall("setLevel", level, "returned", g_logger)
       ELSE /\ \E outcome \in {"crashed", "returned"} :
                   logCall' = LoggerCall("setLevel", level, outcome, g_logger)
            /\ UNCHANGED loggers
    /\ UNCHANGED g_logger

(***************************************************************************)
(* Specifications                                                          *)
(***************************************************************************)
LoggerIdle ==
    /\ g_logger = NullLogger
    /\ loggers = <<>>
    /\ logCall = LoggerCall("none", "Info", "returned", NullLogger)

RotationIdle ==
    /\ rm = [spinAt |-> [t \in RotationDomain |-> Identity],
              equatorAt |-> [t \in RotationDomain |-> Identity],
              period |-> 0]
    /\ crm = NewCachingRotationModel
    /\ rmCall = RotationCall("none", 0, Identity)

CategoryIdle ==
    /\ manager = NewManager
    /\ catCall = CategoryCall("none", "", Invalid, Invalid, FALSE)

CoordIdle == ucCall = NoCoordCall

ConvertIdle == convCall = NoConvertCall

TwoVectorIdle ==
    /\ assertsEnabled = TRUE
    /\ tvFrame = NoTwoVectorFrame
    /\ tvCall = NoTwoVectorCall

FramesIdle ==
    /\ orbitFrame = [b \in Bodies |-> J2000EclipticFrame(Sel("Star", "s1"))]
    /\ bodyFrame = [b \in Bodies |-> J2000EclipticFrame(Sel("Star", "s1"))]
    /\ laterOrbitFrame = orbitFrame
    /\ laterBodyFrame = bodyFrame
    /\ frameCall = FrameCall("none", NullFrame, 0, "PositionFrame", "returned", 0, FALSE)

TimelineEmpty ==
    /\ timeline = <<>>
    /\ tlCall = TimelineCall("none", 0, NoPhase, FALSE, <<>>)

CacheIdle ==
    /\ frameOrient = [t \in OrientDomain |-> Identity]
    /\ cf = NewCachingFrame
    /\ computed = <<>>
    /\ call = [op |-> "none", t |-> InitLastTime, ret |-> 0]
    /\ prevCall = NoCall

UniverseEmpty ==
    /\ solarSystems = {}
    /\ bodyFrameTrees = {}
    /\ treeChildren = [o \in Bodies \cup Stars |-> <<>>]
    /\ phases = <<>>
    /\ lastCreate = CreateCall(Null, 0, 0, NoSelection, NullPhase)

\* A caching frame and its callers.
CacheInit ==
    /\ frameOrient \in [OrientDomain -> Angles]
    /\ cf = NewCachingFrame
    /\ computed = <<>>
    /\ call = [op |-> "none", t |-> InitLastTime, ret |-> 0]
    /\ prevCall = NoCall
    /\ UniverseEmpty
    /\ TimelineEmpty
    /\ FramesIdle
    /\ TwoVectorIdle
    /\ ConvertIdle
    /\ CoordIdle
    /\ CategoryIdle
    /\ RotationIdle
    /\ LoggerIdle

CacheNext ==
    /\ \/ \E tjd \in TimeArgs : GetOrientation(tjd)
       \/ \E tjd \in TimeArgs : GetAngularVelocity(tjd)
    /\ UNCHANGED <<universeVars, timelineVars, frameVars, twoVectorVars, convertVars, coordVars, categoryVars, rotationVars, loggerVars>>

SpecCache == CacheInit /\ [][CacheNext]_vars

\* A universe in which timeline phases are created.
MaxPhases == 2

PhaseTimes == 0 .. MaxTime

UniverseInit ==
    /\ UniverseEmpty
    /\ CacheIdle
    /\ TimelineEmpty
    /\ FramesIdle
    /\ TwoVectorIdle
    /\ ConvertIdle
    /\ CoordIdle
    /\ CategoryIdle
    /\ RotationIdle
    /\ LoggerIdle

UniverseNext ==
    /\ \E b \in Bodies, startT \in PhaseTimes, endT \in PhaseTimes, center \in Selections :
           /\ \/ Len(phases) < MaxPhases
              \/ TimeRangeInvalid(startT, endT)
              \/ FrameTreeOwner(center) = Null
           /\ CreateTimelinePhase(b, startT, endT, center)
    /\ UNCHANGED <<cacheVars, timelineVars, frameVars, twoVectorVars, convertVars, coordVars, categoryVars, rotationVars, loggerVars>>

SpecUniverse == UniverseInit /\ [][UniverseNext]_vars

\* One body's timeline, its owner and its readers.
MaxTimelineTime == 3

TimelineTimes == 0 .. MaxTimelineTime

QueryTimes == (0 - 1) .. (MaxTimelineTime + 1)

TimelineInit ==
    /\ TimelineEmpty
    /\ UniverseEmpty
    /\ CacheIdle
    /\ FramesIdle
    /\ TwoVectorIdle
    /\ ConvertIdle
    /\ CoordIdle
    /\ CategoryIdle
    /\ RotationIdle
    /\ LoggerIdle

TimelineNext ==
    /\ \/ \E startT \in TimelineTimes, endT \in TimelineTimes : AppendPhase(startT, endT)
       \/ \E t \in QueryTimes : FindPhase(t)
       \/ \E t \in QueryTimes : Includes(t)
    /\ UNCHANGED <<cacheVars, universeVars, frameVars, twoVectorVars, convertVars, coordVars, categoryVars, rotationVars, loggerVars>>

SpecTimeline == TimelineInit /\ [][TimelineNext]_vars

\* Bodies with their frames at time 0.0, and one query of a frame: the
\* queries change nothing, so each is made from the state as constructed.
\* Each body's timeline is a single phase.
MaxDepthArg == 2

FramesInit ==
    /\ orbitFrame \in [Bodies -> OrbitFrameSet]
    /\ bodyFrame \in [Bodies -> BodyFrameSet]
    /\ laterOrbitFrame = orbitFrame
    /\ laterBodyFrame = bodyFrame
    /\ frameCall = FrameCall("none", NullFrame, 0, "PositionFrame", "returned", 0, FALSE)
    /\ CacheIdle
    /\ UniverseEmpty
    /\ TimelineEmpty
    /\ TwoVectorIdle
    /\ ConvertIdle
    /\ CoordIdle
    /\ CategoryIdle
    /\ RotationIdle
    /\ LoggerIdle

FramesNext ==
    /\ frameCall.op = "none"
    /\ \/ \E f \in FrameSet, maxDepth \in 0 .. MaxDepthArg, frameType \in FrameTypes :
              NestingDepth(f, maxDepth, frameType)
       \/ \E f \in FrameSet : IsInertial(f)
    /\ UNCHANGED <<cacheVars, universeVars, timelineVars, twoVectorVars, convertVars, coordVars, categoryVars, rotationVars, loggerVars>>

SpecFrames == FramesInit /\ [][FramesNext]_vars

\* Bodies whose timelines have two phases, one active at time 0.0 and one
\* active later, each with its own orbit frame and body frame.
PhaseOrbitFrameSet ==
    { J2000EclipticFrame(Sel("Star", "s1")),
      J2000EclipticFrame(Sel("Body", "b1")),
      J2000EquatorFrame(Sel("Body", "b2")) }

PhaseBodyFrameSet ==
    { J2000EquatorFrame(Sel("Star", "s1")),
      BodyFixedFrame(Sel("Star", "s1"), Sel("Body", "b1")),
      BodyMeanEquatorFrame(Sel("Star", "s1"), Sel("Body", "b2")) }

PhaseQueryFrameSet ==
    { J2000EclipticFrame(Sel("Body", "b1")),
      J2000EquatorFrame(Sel("Body", "b2")),
      BodyFixedFrame(Sel("Star", "s1"), Sel("Body", "b1")),
      BodyFixedFrame(Sel("Body", "b2"), Sel("Location", "l1")),
      TwoVectorFrame(Sel("Star", "s1"),
                     createConstantVector(NullFrame),
                     createConstantVector(J2000EclipticFrame(Sel("Star", "s1")))) }

PhasesInit ==
    /\ orbitFrame \in [Bodies -> PhaseOrbitFrameSet]
    /\ bodyFrame \in [Bodies -> PhaseBodyFrameSet]
    /\ laterOrbitFrame \in [Bodies -> PhaseOrbitFrameSet]
    /\ laterBodyFrame \in [Bodies -> PhaseBodyFrameSet]
    /\ frameCall = FrameCall("none", NullFrame, 0, "PositionFrame", "returned", 0, FALSE)
    /\ CacheIdle
    /\ UniverseEmpty
    /\ TimelineEmpty
    /\ TwoVectorIdle
    /\ ConvertIdle
    /\ CoordIdle
    /\ CategoryIdle
    /\ RotationIdle
    /\ LoggerIdle

PhasesNext ==
    /\ frameCall.op = "none"
    /\ \E f \in PhaseQueryFrameSet, maxDepth \in 0 .. MaxDepthArg, frameType \in FrameTypes :
           NestingDepth(f, maxDepth, frameType)
    /\ UNCHANGED <<cacheVars, universeVars, timelineVars, twoVectorVars, convertVars, coordVars, categoryVars, rotationVars, loggerVars>>

SpecPhases == PhasesInit /\ [][PhasesNext]_vars

\* The construction of a two-vector frame, in a build with assert() and in
\* one without.
AxisArgs == (0 - 4) .. 4

TwoVectorAxesInit ==
    /\ assertsEnabled \in BOOLEAN
    /\ tvFrame = NoTwoVectorFrame
    /\ tvCall = NoTwoVectorCall
    /\ CacheIdle
    /\ UniverseEmpty
    /\ TimelineEmpty
    /\ FramesIdle
    /\ ConvertIdle
    /\ CoordIdle
    /\ CategoryIdle
    /\ RotationIdle
    /\ LoggerIdle

TwoVectorAxesNext ==
    /\ \E primAxis \in AxisArgs, secAxis \in AxisArgs : ConstructTwoVectorFrame(primAxis, secAxis)
    /\ UNCHANGED <<cacheVars, universeVars, timelineVars, frameVars, convertVars, coordVars, categoryVars, rotationVars, loggerVars>>

SpecTwoVectorAxes == TwoVectorAxesInit /\ [][TwoVectorAxesNext]_vars

\* A two-vector frame and one evaluation of its orientation.  The build is
\* one without assert(), in which every axis pair yields a frame; the pairs
\* taken are the valid ones and one of each invalid sort.  The evaluation
\* changes nothing, so each is made from the frame as constructed.
Coords == (0 - 1) .. MaxCoord

Directions == {<<x, y, z>> : x \in Coords, y \in Coords, z \in Coords}

ValidAxisPairs == {ax \in AxisArgs \X AxisArgs : axesValid(ax[1], ax[2])}

InvalidAxisPairs == {<<0, 1>>, <<2, 0>>, <<4, 1>>, <<0 - 2, 2>>, <<3, 3>>}

TwoVectorInit ==
    /\ assertsEnabled = FALSE
    /\ tvFrame \in {TwoVectorFrameAxes(ax[1], ax[2], FALSE) :
                        ax \in ValidAxisPairs \cup InvalidAxisPairs}
    /\ tvCall = NoTwoVectorCall
    /\ CacheIdle
    /\ UniverseEmpty
    /\ TimelineEmpty
    /\ FramesIdle
    /\ ConvertIdle
    /\ CoordIdle
    /\ CategoryIdle
    /\ RotationIdle
    /\ LoggerIdle

TwoVectorNext ==
    /\ tvCall.op = "none"
    /\ \E p \in Directions, s \in Directions : ComputeOrientation(p, s)
    /\ UNCHANGED <<cacheVars, universeVars, timelineVars, frameVars, convertVars, coordVars, categoryVars, rotationVars, loggerVars>>

SpecTwoVector == TwoVectorInit /\ [][TwoVectorNext]_vars

\* Frames of every sort of centre and one conversion by each.  The
\* conversions change nothing, so each is made from the initial state.
Positions == Directions

FramesAt ==
    {FrameAt(c, q, IF c.type = "Body" THEN pos ELSE ZeroVector) :
        c \in Selections, q \in QuarterTurns, pos \in Positions}

ConvertInit ==
    /\ ConvertIdle
    /\ CacheIdle
    /\ UniverseEmpty
    /\ TimelineEmpty
    /\ FramesIdle
    /\ TwoVectorIdle
    /\ CoordIdle
    /\ CategoryIdle
    /\ RotationIdle
    /\ LoggerIdle

ConvertNext ==
    /\ convCall.op = "none"
    /\ \/ \E fr \in FramesAt, p \in Positions : ConvertFromAstrocentric(fr, p)
       \/ \E fr \in FramesAt, p \in Positions : ConvertToAstrocentric(fr, p)
    /\ UNCHANGED <<cacheVars, universeVars, timelineVars, frameVars, twoVectorVars, coordVars, categoryVars, rotationVars, loggerVars>>

SpecConvert == ConvertInit /\ [][ConvertNext]_vars

\* Universal coordinates and one operation on them.  The operations change
\* nothing, so each is made from the initial state.  The x components take
\* every value; the y and z components take the values at the ends of the
\* range and next to zero.
Coordinates ==
    {UniversalCoord(cx, cy, cz) :
        cx \in FixedValues, cy \in {MinFixed, 0}, cz \in {0 - 1, MaxFixed}}

KilometerVectors ==
    {<<vx, vy, vz>> : vx \in FixedValues, vy \in {0 - 1, 0, 1}, vz \in {0, 1}}

CoordInit ==
    /\ CoordIdle
    /\ CacheIdle
    /\ UniverseEmpty
    /\ TimelineEmpty
    /\ FramesIdle
    /\ TwoVectorIdle
    /\ ConvertIdle
    /\ CategoryIdle
    /\ RotationIdle
    /\ LoggerIdle

CoordNext ==
    /\ ucCall.op = "none"
    /\ \/ \E a \in Coordinates, b \in Coordinates : CoordAdd(a, b)
       \/ \E a \in Coordinates, b \in Coordinates : CoordSubtract(a, b)
       \/ \E a \in Coordinates, b \in Coordinates : OffsetFromUly(a, b)
       \/ \E v \in KilometerVectors : CreateKmThenOffsetFromKm(v)
    /\ UNCHANGED <<cacheVars, universeVars, timelineVars, frameVars, twoVectorVars,
                   convertVars, categoryVars, rotationVars, loggerVars>>

SpecCoord == CoordInit /\ [][CoordNext]_vars

\* Frames and one conversion there and back by each.  The centres of the
\* universal frames lie at the ends of the range and next to zero.  The
\* centres of the astrocentric frames lie within the positions converted
\* and far from them, at FarAway, where the doubles are more than one
\* position apart.
FarAway == Pow2(MantissaBits + 1)

CentrePositions ==
    Positions \cup {<<FarAway, 0, 0>>, <<0 - FarAway, 1, 0>>, <<FarAway + Pow2(MantissaBits), 0 - 1, 1>>}

CentredFramesAt ==
    {FrameAt(c, q, IF c.type = "Body" THEN pos ELSE ZeroVector) :
        c \in Selections, q \in QuarterTurns, pos \in CentrePositions}

UniversalFramesAt ==
    {UniversalFrameAt(q, UniversalCoord(cx, cy, cz)) :
        q \in QuarterTurns, cx \in {MinFixed, 0 - 1, 0, MaxFixed}, cy \in {MinFixed, 1},
        cz \in {0, MaxFixed}}

RoundTripNext ==
    /\ convCall.op = "none"
    /\ \/ \E fr \in UniversalFramesAt, uc \in Coordinates : UniversalRoundTrip(fr, uc)
       \/ \E fr \in UniversalFramesAt, q \in QuarterTurns : OrientationRoundTrip(fr, q)
       \/ \E fr \in CentredFramesAt, p \in Positions : AstrocentricRoundTrip(fr, p)
    /\ UNCHANGED <<cacheVars, universeVars, timelineVars, frameVars, twoVectorVars,
                   coordVars, categoryVars, rotationVars, loggerVars>>

SpecRoundTrip == ConvertInit /\ [][RoundTripNext]_vars

\* The ids calls are made with: every id the table can hold, and one beyond.
CategoryIds == 1 .. (Cardinality(Names) + 1)

CategoryInit ==
    /\ CategoryIdle
    /\ CacheIdle
    /\ UniverseEmpty
    /\ TimelineEmpty
    /\ FramesIdle
    /\ TwoVectorIdle
    /\ ConvertIdle
    /\ CoordIdle
    /\ RotationIdle
    /\ LoggerIdle

CategoryNext ==
    /\ \/ \E name \in Names, parent \in {Invalid} \cup CategoryIds : Create(name, parent)
       \/ \E id \in CategoryIds : Destroy(id)
       \/ \E sel \in Objects, id \in CategoryIds : AddObject(sel, id)
    /\ UNCHANGED <<cacheVars, universeVars, timelineVars, frameVars, twoVectorVars,
                   convertVars, coordVars, rotationVars, loggerVars>>

SpecCategory == CategoryInit /\ [][CategoryNext]_vars

RotationInit ==
    /\ rm \in RotationModels
    /\ crm = NewCachingRotationModel
    /\ rmCall = RotationCall("none", 0, Identity)
    /\ CacheIdle
    /\ UniverseEmpty
    /\ TimelineEmpty
    /\ FramesIdle
    /\ TwoVectorIdle
    /\ ConvertIdle
    /\ CoordIdle
    /\ CategoryIdle
    /\ LoggerIdle

RotationNext ==
    /\ \/ \E tjd \in RotationTimes : Spin(tjd)
       \/ \E tjd \in RotationTimes : EquatorOrientationAtTime(tjd)
       \/ \E tjd \in RotationTimes : AngularVelocityAtTime(tjd)
       \/ \E tdb \in RotationTimes : RotationAngularVelocityAtTime(tdb)
       \/ \E tjd \in RotationTimes : FrameGetAngularVelocity(tjd)
    /\ UNCHANGED <<cacheVars, universeVars, timelineVars, frameVars, twoVectorVars,
                   convertVars, coordVars, categoryVars, loggerVars>>

SpecRotation == RotationInit /\ [][RotationNext]_vars

LoggerInit ==
    /\ LoggerIdle
    /\ CacheIdle
    /\ UniverseEmpty
    /\ TimelineEmpty
    /\ FramesIdle
    /\ TwoVectorIdle
    /\ ConvertIdle
    /\ CoordIdle
    /\ CategoryIdle
    /\ RotationIdle

LoggerNext ==
    /\ \/ GetLogger
       \/ \E level \in Levels, log \in Streams, err \in Streams : CreateLogger(level, log, err)
       \/ \E level \in Levels : CreateLoggerDefault(level)
       \/ DestroyLogger
       \/ \E level \in Levels : SetLevel(level)
    /\ UNCHANGED <<cacheVars, universeVars, timelineVars, frameVars, twoVectorVars,
                   convertVars, coordVars, categoryVars, rotationVars>>

SpecLogger == LoggerInit /\ [][LoggerNext]_vars

(***************************************************************************)
(* C1: in a run of consecutive getOrientation calls with the same time,    *)
(* computeOrientation is invoked by the first call only; a getOrientation  *)
(* call that is the first call ever, or follows a getOrientation call at   *)
(* another time, invokes it exactly once, for its own time.  Every         *)
(* getOrientation call returns the orientation at the time asked for.      *)
(***************************************************************************)
C1_OncePerRun ==
    call.op = "getOrientation" =>
        /\ call.ret = computeOrientation(call.t)
        /\ (prevCall.op = "getOrientation" /\ prevCall.t = call.t) => computed = <<>>
        /\ (prevCall.op = "none" \/ (prevCall.op = "getOrientation" /\ prevCall.t # call.t))
               => computed = <<call.t>>

C1_Witness ==
    /\ call.op = "getOrientation"
    /\ prevCall.op = "getOrientation"
    /\ prevCall.t = call.t
    /\ computed = <<>>
    /\ call.ret # Identity

(***************************************************************************)
(* C2: the value getAngularVelocity(t) returns is the derivative obtained  *)
(* from computeOrientation(t) and computeOrientation(t + delta), whatever  *)
(* calls came before it.                                                   *)
(***************************************************************************)
C2_AngularVelocityPure ==
    call.op = "getAngularVelocity" =>
        call.ret = Differentiate(computeOrientation(call.t),
                                 computeOrientation(PlusDelta(call.t)))

(***************************************************************************)
(* C4: CreateTimelinePhase returns the null result whenever endTime <=     *)
(* startTime, and every phase created has endTime > startTime.             *)
(***************************************************************************)
C4_EmptyOrReversedRangeRefused ==
    /\ lastCreate.endTime <= lastCreate.startTime => lastCreate.result = NullPhase
    /\ \A i \in 1 .. Len(phases) : phases[i].m_endTime > phases[i].m_startTime

C4_Witness ==
    /\ lastCreate.body # Null
    /\ lastCreate.endTime = lastCreate.startTime
    /\ lastCreate.center.type = "Body"
    /\ lastCreate.result = NullPhase
    /\ Len(phases) > 0

(***************************************************************************)
(* C5: CreateTimelinePhase returns the null result whenever the centre of  *)
(* the orbit frame is neither a Star nor a Body, even if the time range is *)
(* valid.                                                                  *)
(***************************************************************************)
C5_UnsupportedCenterRefused ==
    lastCreate.center.type \notin {"Star", "Body"} => lastCreate.result = NullPhase

C5_Witness ==
    /\ lastCreate.body # Null
    /\ lastCreate.center.type = "Location"
    /\ lastCreate.endTime > lastCreate.startTime
    /\ lastCreate.result = NullPhase

(***************************************************************************)
(* C6: every phase created is owned by the frame tree of its orbit frame's *)
(* centre body, or by the frame tree of the centre star's solar system,    *)
(* is a child of exactly that tree, exactly once, and the trees and solar  *)
(* systems that exist are those some phase's centre asked for.             *)
(***************************************************************************)
Count(seq, x) == Cardinality({k \in DOMAIN seq : seq[k] = x})

C6_OwnedByCenterTreeOnce ==
    /\ \A i \in 1 .. Len(phases) :
           LET c == phases[i].m_orbitFrameCenter
           IN  /\ c.type \in {"Body", "Star"}
               /\ phases[i].m_owner = c.id
               /\ c.type = "Body" => c.id \in bodyFrameTrees
               /\ c.type = "Star" => c.id \in solarSystems
               /\ \A o \in Bodies \cup Stars :
                      Count(treeChildren[o], i) = IF o = c.id THEN 1 ELSE 0
    /\ bodyFrameTrees =
           {phases[i].m_orbitFrameCenter.id :
               i \in {k \in 1 .. Len(phases) : phases[k].m_orbitFrameCenter.type = "Body"}}
    /\ solarSystems =
           {phases[i].m_orbitFrameCenter.id :
               i \in {k \in 1 .. Len(phases) : phases[k].m_orbitFrameCenter.type = "Star"}}
    /\ lastCreate.result # NullPhase => lastCreate.result = Len(phases)

C6_Witness ==
    /\ Len(phases) = 2
    /\ lastCreate.result = 2
    /\ phases[1].m_orbitFrameCenter.type = "Body"
    /\ phases[2].m_orbitFrameCenter.type = "Star"
    /\ Len(treeChildren[phases[1].m_owner]) = 1
    /\ Len(treeChildren[phases[2].m_owner]) = 1

(***************************************************************************)
(* C7: findPhase(t) returns the phase whose interval [start, end) contains *)
(* t; at an instant shared by two consecutive phases that is the phase     *)
(* starting there; for t before startTime() or at or after endTime() it    *)
(* returns the sentinel.                                                   *)
(***************************************************************************)
C7_FindPhaseHalfOpen ==
    tlCall.op = "findPhase" =>
        LET n == tlCall.result
            t == tlCall.t
        IN  /\ n # NullPhase =>
                   /\ n \in 1 .. Len(timeline)
                   /\ timeline[n].m_startTime <= t
                   /\ t < timeline[n].m_endTime
            /\ \A k \in 1 .. Len(timeline) :
                   (timeline[k].m_startTime <= t /\ t < timeline[k].m_endTime) => n = k
            /\ (t < timeline[1].m_startTime \/ t >= timeline[Len(timeline)].m_endTime)
                   => n = NullPhase

C7_Witness ==
    /\ tlCall.op = "findPhase"
    /\ Len(timeline) = 2
    /\ timeline[1].m_endTime = timeline[2].m_startTime
    /\ tlCall.t = timeline[2].m_startTime
    /\ tlCall.result = 2

(***************************************************************************)
(* C8: includes(t) is true exactly when startTime() <= t < endTime(), the  *)
(* first phase's start and the last phase's end; includes(endTime()) is    *)
(* false.                                                                  *)
(***************************************************************************)
C8_IncludesHalfOpen ==
    tlCall.op = "includes" =>
        /\ tlCall.result =
               (timeline[1].m_startTime <= tlCall.t /\ tlCall.t < timeline[Len(timeline)].m_endTime)
        /\ tlCall.t = timeline[Len(timeline)].m_endTime => tlCall.result = FALSE

C8_Witness ==
    /\ tlCall.op = "includes"
    /\ Len(timeline) = 2
    /\ tlCall.t = timeline[2].m_endTime
    /\ tlCall.result = FALSE

(***************************************************************************)
(* C9: the phases of a timeline are in increasing time order and pairwise  *)
(* non-overlapping; an append of a phase that starts before the end of the *)
(* last phase returns false and leaves the phases as they were.            *)
(***************************************************************************)
C9_AppendKeepsOrder ==
    /\ \A i \in 1 .. Len(timeline) : \A j \in (i + 1) .. Len(timeline) :
           /\ timeline[i].m_startTime < timeline[j].m_startTime
           /\ timeline[i].m_endTime <= timeline[j].m_startTime
    /\ (/\ tlCall.op = "appendPhase"
        /\ Len(tlCall.before) > 0
        /\ tlCall.phase.m_startTime < tlCall.before[Len(tlCall.before)].m_endTime)
           => (tlCall.result = FALSE /\ timeline = tlCall.before)

C9_Witness ==
    /\ tlCall.op = "appendPhase"
    /\ Len(tlCall.before) = 2
    /\ tlCall.phase.m_startTime < tlCall.before[2].m_endTime
    /\ tlCall.phase.m_startTime > tlCall.before[1].m_startTime
    /\ tlCall.result = FALSE
    /\ timeline = tlCall.before

(***************************************************************************)
(* What the position and the orientation of a body depend on.  The nodes   *)
(* are the position and the orientation of each body; a frame refers to    *)
(* the position of its centre, to the orientation of the object it is      *)
(* fixed to, and to what its vectors refer to.                             *)
(***************************************************************************)
BodyOf(sel) == IF location(sel) # Null THEN getParentBody(location(sel)) ELSE body(sel)

PositionOf(sel) == IF BodyOf(sel) = Null THEN {} ELSE {<<"position", BodyOf(sel)>>}

OrientationOf(sel) == IF BodyOf(sel) = Null THEN {} ELSE {<<"orientation", BodyOf(sel)>>}

RECURSIVE FrameRefs(_)

VectorRefs(fv) ==
    IF fv.vecType = "ConstantVector"
    THEN IF fv.frame = NullFrame THEN {} ELSE FrameRefs(fv.frame)
    ELSE PositionOf(fv.observer) \cup PositionOf(fv.target)

FrameRefs(f) ==
    PositionOf(f.center) \cup
        (IF f.kind = "BodyFixed" THEN OrientationOf(f.fixObject)
         ELSE IF f.kind = "BodyMeanEquator" THEN OrientationOf(f.equatorObject)
         ELSE IF f.kind = "TwoVector"
         THEN VectorRefs(f.primaryVector) \cup VectorRefs(f.secondaryVector)
         ELSE {})

Deps(node) ==
    IF node[1] = "position" THEN FrameRefs(orbitFrame[node[2]])
    ELSE FrameRefs(bodyFrame[node[2]])

RECURSIVE Closure(_, _)

Closure(S, k) ==
    IF k = 0 THEN S ELSE Closure(S \cup UNION {Deps(n) : n \in S}, k - 1)

Reachable(S) == Closure(S, 2 * Cardinality(Bodies))

OnCycle(node) == node \in Reachable(Deps(node))

ReachesCycle(f) == \E node \in Reachable(FrameRefs(f)) : OnCycle(node)

(***************************************************************************)
(* C3: isInertial() is false for every two-vector frame.                   *)
(***************************************************************************)
C3_TwoVectorNotInertial ==
    (frameCall.op = "isInertial" /\ frameCall.frame.kind = "TwoVector")
        => (frameCall.outcome = "returned" /\ frameCall.inertial = FALSE)

(***************************************************************************)
(* C10: when the position or the orientation of a body depends, directly   *)
(* or through other bodies, on itself, nestingDepth of every frame that    *)
(* refers to that body returns, and returns a value greater than maxDepth. *)
(***************************************************************************)
C10_CycleExceedsMaxDepth ==
    (frameCall.op = "nestingDepth" /\ ReachesCycle(frameCall.frame))
        => (frameCall.outcome = "returned" /\ frameCall.depth > frameCall.maxDepth)

(***************************************************************************)
(* The chain of bodies below a frame: the body the frame is centred on,    *)
(* the body that body's orbit frame is centred on, and so on down to a     *)
(* star.  ChainLength is the number of bodies on it, NoChain when the      *)
(* chain does not end at a star.                                           *)
(***************************************************************************)
NoChain == 0 - 1

RECURSIVE ChainLength(_, _)

ChainLength(f, fuel) ==
    IF star(getCenter(f)) # Null THEN 0
    ELSE IF body(getCenter(f)) = Null \/ fuel = 0 THEN NoChain
    ELSE LET n == ChainLength(orbitFrame[body(getCenter(f))], fuel - 1)
         IN  IF n = NoChain THEN NoChain ELSE n + 1

RECURSIVE RefersToCentresOnly(_, _)

\* The frame and the orbit frames along its chain refer to nothing but
\* their centres.
RefersToCentresOnly(f, fuel) ==
    /\ f.kind \in {"J2000Ecliptic", "J2000Equator"}
    /\ (body(getCenter(f)) # Null /\ fuel > 0)
           => RefersToCentresOnly(orbitFrame[body(getCenter(f))], fuel - 1)

(***************************************************************************)
(* C11 as stated: for a frame above an acyclic chain of k bodies ending at *)
(* a star, nestingDepth(maxDepth, frameType) returns k whenever            *)
(* k <= maxDepth; a frame centred on a star returns 0.                     *)
(***************************************************************************)
C11_ChainDepthAnyFrame ==
    LET k == ChainLength(frameCall.frame, Cardinality(Bodies))
    IN  (frameCall.op = "nestingDepth" /\ k # NoChain /\ k <= frameCall.maxDepth)
            => (frameCall.outcome = "returned" /\ frameCall.depth = k)

(***************************************************************************)
(* C11, amended: the same, for a frame and orbit frames that refer to      *)
(* nothing but their centres (J2000 ecliptic and J2000 equator frames).    *)
(***************************************************************************)
C11_ChainDepth ==
    LET k == ChainLength(frameCall.frame, Cardinality(Bodies))
    IN  (/\ frameCall.op = "nestingDepth"
         /\ RefersToCentresOnly(frameCall.frame, Cardinality(Bodies))
         /\ k # NoChain
         /\ k <= frameCall.maxDepth)
            => (frameCall.outcome = "returned" /\ frameCall.depth = k)

C11_Witness ==
    /\ frameCall.op = "nestingDepth"
    /\ RefersToCentresOnly(frameCall.frame, Cardinality(Bodies))
    /\ ChainLength(frameCall.frame, Cardinality(Bodies)) = 2
    /\ frameCall.maxDepth = 2
    /\ frameCall.outcome = "returned"
    /\ frameCall.depth = 2

(***************************************************************************)
(* What the position and the orientation of a body depend on at the later  *)
(* time: the frames of the phases active then.                             *)
(***************************************************************************)
LaterDeps(node) ==
    IF node[1] = "position" THEN FrameRefs(laterOrbitFrame[node[2]])
    ELSE FrameRefs(laterBodyFrame[node[2]])

RECURSIVE LaterClosure(_, _)

LaterClosure(S, k) ==
    IF k = 0 THEN S ELSE LaterClosure(S \cup UNION {LaterDeps(n) : n \in S}, k - 1)

LaterReachable(S) == LaterClosure(S, 2 * Cardinality(Bodies))

LaterOnCycle(node) == node \in LaterReachable(LaterDeps(node))

LaterReachesCycle(f) == \E node \in LaterReachable(FrameRefs(f)) : LaterOnCycle(node)

(***************************************************************************)
(* C12: when, at time 0.0 or at the later time, the position or the        *)
(* orientation of a body depends on itself through the frames of the       *)
(* phases active then, nestingDepth of every frame that refers to that     *)
(* body returns a value greater than maxDepth.                             *)
(***************************************************************************)
C12_CycleInAnyPhaseExceedsMaxDepth ==
    (/\ frameCall.op = "nestingDepth"
     /\ (ReachesCycle(frameCall.frame) \/ LaterReachesCycle(frameCall.frame)))
        => (frameCall.outcome = "returned" /\ frameCall.depth > frameCall.maxDepth)

(***************************************************************************)
(* Properties of vectors v / sqrt(d) and of matrices made of them.         *)
(***************************************************************************)
Sign(n) == IF n > 0 THEN 1 ELSE IF n < 0 THEN 0 - 1 ELSE 0

SameVector(a, b) ==
    \A i \in 1 .. 3 :
        /\ Sign(a.v[i]) = Sign(b.v[i])
        /\ a.v[i] * a.v[i] * b.d = b.v[i] * b.v[i] * a.d

IsUnit(a) == a.d > 0 /\ Dot(a.v, a.v) = a.d

Orthogonal(a, b) == Dot(a.v, b.v) = 0

\* The determinant of the integer components; the determinant of the matrix
\* is this over sqrt(m[0].d * m[1].d * m[2].d).
ComponentDeterminant(m) == Dot(m[0].v, CrossOf(m[1].v, m[2].v))

DeterminantIsOne(m) ==
    /\ ComponentDeterminant(m) > 0
    /\ ComponentDeterminant(m) * ComponentDeterminant(m) = m[0].d * m[1].d * m[2].d

AxisConfigurationValid(fr) ==
    /\ Abs(fr.primaryAxis) \in 1 .. 3
    /\ Abs(fr.secondaryAxis) \in 1 .. 3
    /\ Abs(fr.primaryAxis) # Abs(fr.secondaryAxis)

Collinear(p, s) == CrossOf(p, s) = <<0, 0, 0>>

\* The cross product of the two normalised directions is shorter than
\* Tolerance: |p x s|^2 / (|p|^2 |s|^2) < 1 / ToleranceInvSq.
NearlyCollinear(p, s) ==
    \/ Collinear(p, s)
    \/ Dot(CrossOf(p, s), CrossOf(p, s)) * ToleranceInvSq < Dot(p, p) * Dot(s, s)

\* The normalised primary direction, negated when the primary axis is
\* negative.
SignedPrimary(fr, p) ==
    Scaled(<<Sign(fr.primaryAxis) * p[1], Sign(fr.primaryAxis) * p[2], Sign(fr.primaryAxis) * p[3]>>,
           Dot(p, p))

\* The matrix has the primary direction in row |primary| - 1, its three
\* rows are assigned to distinct indices, and it is a proper rotation.
ProperRotationAboutPrimary(fr, p, q) ==
    /\ q.kind \in {"matrix", "identity"}
    /\ SameVector(q.m[Abs(fr.primaryAxis) - 1], SignedPrimary(fr, p))
    /\ {Abs(fr.primaryAxis), Abs(fr.secondaryAxis), Abs(fr.tertiaryAxis)} = 1 .. 3
    /\ \A i \in 0 .. 2 : IsUnit(q.m[i])
    /\ \A i \in 0 .. 2 : \A j \in 0 .. 2 : i # j => Orthogonal(q.m[i], q.m[j])
    /\ DeterminantIsOne(q.m)

(***************************************************************************)
(* C13 as stated: for every valid signed axis pair and any two directions  *)
(* that are not collinear, computeOrientation assembles a matrix whose row *)
(* |primary| - 1 is the normalised primary direction (negated when primary *)
(* < 0), whose rows occupy the three distinct row indices and are mutually *)
(* orthogonal unit vectors, and whose determinant is +1.                   *)
(***************************************************************************)
C13_RotationForNonCollinear ==
    (/\ tvCall.op = "computeOrientation"
     /\ AxisConfigurationValid(tvFrame)
     /\ ~Collinear(tvCall.p, tvCall.s))
        => (/\ tvCall.outcome = "returned"
            /\ ProperRotationAboutPrimary(tvFrame, tvCall.p, tvCall.result))

(***************************************************************************)
(* C13, amended: the same, for any two directions whose normalised cross   *)
(* product is not shorter than Tolerance.                                  *)
(***************************************************************************)
C13_RotationOutsideTolerance ==
    (/\ tvCall.op = "computeOrientation"
     /\ AxisConfigurationValid(tvFrame)
     /\ ~NearlyCollinear(tvCall.p, tvCall.s))
        => (/\ tvCall.outcome = "returned"
            /\ tvCall.result.kind = "matrix"
            /\ ProperRotationAboutPrimary(tvFrame, tvCall.p, tvCall.result))

C13_Witness ==
    /\ tvCall.op = "computeOrientation"
    /\ tvFrame.primaryAxis = 0 - 3
    /\ tvFrame.secondaryAxis = 2
    /\ ~NearlyCollinear(tvCall.p, tvCall.s)
    /\ ~Orthogonal(Scaled(tvCall.p, 1), Scaled(tvCall.s, 1))
    /\ tvCall.result.kind = "matrix"
    /\ tvCall.result.m # IdentityMatrix
    /\ DeterminantIsOne(tvCall.result.m)

(***************************************************************************)
(* C14: when the normalised primary and secondary directions are collinear *)
(* or nearly so (cross product shorter than Tolerance; parallel and        *)
(* anti-parallel included), computeOrientation returns the identity        *)
(* orientation; it reports no error and returns no non-rotation.           *)
(***************************************************************************)
C14_DegenerateIsIdentity ==
    (tvCall.op = "computeOrientation" /\ NearlyCollinear(tvCall.p, tvCall.s))
        => (tvCall.outcome = "returned" /\ tvCall.result = IdentityOrientation)

C14_Witness ==
    /\ tvCall.op = "computeOrientation"
    /\ AxisConfigurationValid(tvFrame)
    /\ ~Collinear(tvCall.p, tvCall.s)
    /\ NearlyCollinear(tvCall.p, tvCall.s)
    /\ tvCall.outcome = "returned"
    /\ tvCall.result = IdentityOrientation

(***************************************************************************)
(* C15 as stated: no frame whose primary or secondary axis is 0, has       *)
(* |axis| > 3, or has |primary| = |secondary| ever becomes usable for      *)
(* orientation evaluation.                                                 *)
(***************************************************************************)
C15_InvalidAxesNeverConstructed ==
    tvFrame.state = "constructed" => AxisConfigurationValid(tvFrame)

(***************************************************************************)
(* C15, amended: in a build with assert() compiled in, constructing a      *)
(* frame with such axes aborts the program, and every frame constructed    *)
(* has a valid axis configuration.                                         *)
(***************************************************************************)
C15_InvalidAxesAbortWithAsserts ==
    assertsEnabled =>
        /\ tvFrame.state = "constructed" => AxisConfigurationValid(tvFrame)
        /\ tvFrame.state = "aborted" => ~AxisConfigurationValid(tvFrame)

C15_Witness ==
    /\ assertsEnabled
    /\ tvFrame.state = "aborted"
    /\ tvFrame.primaryAxis = 0 - 2
    /\ tvFrame.secondaryAxis = 2

(***************************************************************************)
(* C16: convertFromAstrocentric and convertToAstrocentric return the zero  *)
(* vector for every input when the frame's centre is neither a Body nor a  *)
(* Star; otherwise the conversion is a non-degenerate transform of its     *)
(* input: no other input is converted to the same result, and the opposite *)
(* conversion takes the result back to the input.                          *)
(***************************************************************************)
C16_ZeroUnlessBodyOrStar ==
    LET fr == convCall.frame
        convert(x) == IF convCall.op = "convertFromAstrocentric"
                      THEN convertFromAstrocentric(fr, x)
                      ELSE convertToAstrocentric(fr, x)
        opposite(x) == IF convCall.op = "convertFromAstrocentric"
                       THEN convertToAstrocentric(fr, x)
                       ELSE convertFromAstrocentric(fr, x)
    IN  convCall.op # "none" =>
            IF fr.centerObject.type \in {"Body", "Star"}
            THEN /\ \A x \in Positions : x # convCall.p => convert(x) # convCall.result
                 /\ opposite(convCall.result) = convCall.p
            ELSE convCall.result = ZeroVector

C16_Witness ==
    /\ convCall.op = "convertToAstrocentric"
    /\ convCall.frame.centerObject.type = "Location"
    /\ convCall.p # ZeroVector
    /\ convCall.result = ZeroVector

(***************************************************************************)
(* C17 as stated: the value isInertial() of a mean equator frame returns   *)
(* is true exactly when the frame is frozen or the equator object is a     *)
(* body whose body frame is inertial; an unfrozen frame whose equator      *)
(* object is not a body is not inertial.                                   *)
(***************************************************************************)
C17_InertialIffFrozenOrBodyFrameInertial ==
    LET f == frameCall.frame
    IN  (/\ frameCall.op = "isInertial"
         /\ f.kind = "BodyMeanEquator"
         /\ frameCall.outcome = "returned")
            => frameCall.inertial =
                   (\/ f.isFrozen
                    \/ /\ body(f.equatorObject) # Null
                       /\ isInertial(bodyFrame[body(f.equatorObject)]) = "true")

(***************************************************************************)
(* C17, amended: whenever the call returns, isInertial() of a mean equator *)
(* frame is true exactly when the frame is frozen, or its equator object   *)
(* is not a body, or the equator body's body frame at time 0.0 reports     *)
(* itself inertial; the call returns unless the frame is unfrozen and the  *)
(* chain of equator bodies' body frames never ends.                        *)
(***************************************************************************)
C17_InertialIffFrozenOrNoBodyOrBodyFrameInertial ==
    LET f == frameCall.frame
    IN  (frameCall.op = "isInertial" /\ f.kind = "BodyMeanEquator")
            => /\ frameCall.outcome = "returned" =>
                      frameCall.inertial =
                          (\/ f.isFrozen
                           \/ body(f.equatorObject) = Null
                           \/ isInertial(bodyFrame[body(f.equatorObject)]) = "true")
               /\ frameCall.outcome = "crashed" =>
                      /\ ~f.isFrozen
                      /\ body(f.equatorObject) # Null
                      /\ \E node \in Reachable({<<"orientation", body(f.equatorObject)>>}) :
                             OnCycle(node)

C17_Witness ==
    /\ frameCall.op = "isInertial"
    /\ frameCall.frame.kind = "BodyMeanEquator"
    /\ ~frameCall.frame.isFrozen
    /\ body(frameCall.frame.equatorObject) # Null
    /\ bodyFrame[body(frameCall.frame.equatorObject)].kind = "BodyFixed"
    /\ frameCall.outcome = "returned"
    /\ frameCall.inertial = FALSE

(***************************************************************************)
(* C18: CreateKm(v).offsetFromKm(Zero()) equals v, up to the kilometres    *)
(* one micro-light-year stands for, for every kilometre vector v that is   *)
(* in range.                                                               *)
(***************************************************************************)
C18_CreateKmRoundTrip ==
    ucCall.op = "CreateKm.offsetFromKm" =>
        \A i \in 1 .. 3 :
            (ucCall.v[i] * KmPerMicroLightYear * KmPerMicroLightYear \in FixedValues)
                => Abs(ucCall.result[i] - ucCall.v[i]) <= KmPerMicroLightYear

(***************************************************************************)
(* Sums, differences and negations of components and vectors, as exact     *)
(* integers.                                                               *)
(***************************************************************************)
ExactSum(a, b) == UniversalCoord(a.x + b.x, a.y + b.y, a.z + b.z)

ExactDifference(a, b) == UniversalCoord(a.x - b.x, a.y - b.y, a.z - b.z)

Representable(c) == c.x \in FixedValues /\ c.y \in FixedValues /\ c.z \in FixedValues

Negated(v) == <<0 - v[1], 0 - v[2], 0 - v[3]>>

LiveIds(m) == {id \in 1 .. Len(m.m_categories) : m.m_categories[id] # NoCategory}

OrientationOfModel(t) == Compose(rm.spinAt[t], rm.equatorAt[t])

\* The step the claim gives: period / 10000 for a periodic model, else the
\* fixed constant.
StepOfModel ==
    IF rm.period # 0 THEN rm.period \div PeriodDivisor ELSE ANGULAR_VELOCITY_DIFF_DELTA

\* The angular velocity that the relative quaternion dq gives over dt.
VelocityFrom(dq, dt) == IF dq = Identity THEN <<0, 1>> ELSE <<dq, dt>>

IsFramelessConstantVector(fv) == fv.vecType = "ConstantVector" /\ fv.frame = NullFrame

(***************************************************************************)
(* C26: FrameVector::nestingDepth on a constant vector without an attached *)
(* frame completes and returns the current depth, so nestingDepth of a     *)
(* two-vector frame with such a vector completes; with the frame centred   *)
(* on a star and the other vector running from that star to a body whose   *)
(* orbit frame is a J2000 ecliptic frame of the star, it returns 1.        *)
(***************************************************************************)
C26_FramelessConstantVectorCompletes ==
    (/\ frameCall.op = "nestingDepth"
     /\ frameCall.frame.kind = "TwoVector"
     /\ IsFramelessConstantVector(frameCall.frame.primaryVector))
        => /\ frameCall.outcome = "returned"
           /\ (/\ frameCall.frame
                      = TwoVectorFrame(Sel("Star", "s1"), createConstantVector(NullFrame),
                                       createRelativePositionVector(Sel("Star", "s1"),
                                                                    Sel("Body", "b1")))
               /\ orbitFrame["b1"] = J2000EclipticFrame(Sel("Star", "s1")))
              => frameCall.depth = 1

(***************************************************************************)
(* C27: a CreateTimelinePhase call that returns the failure result creates *)
(* no frame tree and no solar system and adds no phase to any frame tree,  *)
(* also when the interval is invalid and the centre is a star or a body.   *)
(***************************************************************************)
C27_FailedCreateHasNoEffect ==
    [][ lastCreate'.result = NullPhase =>
            UNCHANGED <<solarSystems, bodyFrameTrees, treeChildren, phases>> ]_vars

C27_Witness ==
    /\ lastCreate.body # Null
    /\ lastCreate.result = NullPhase
    /\ lastCreate.endTime < lastCreate.startTime
    /\ lastCreate.center.type = "Body"
    /\ lastCreate.center.id \notin bodyFrameTrees
    /\ solarSystems # {}
    /\ Len(phases) > 0

(***************************************************************************)
(* C30: the global logger handle never refers to a destroyed logger: the   *)
(* handle is null or refers to a live logger, GetLogger never returns a    *)
(* destroyed instance, and CreateLogger returns a live logger (a newly     *)
(* created one after DestroyLogger).                                       *)
(***************************************************************************)
C30_HandleNeverDangling ==
    /\ ~Dangling(g_logger)
    /\ logCall.op = "GetLogger" => ~Dangling(logCall.ret)
    /\ logCall.op = "CreateLogger" => (logCall.ret # NullLogger /\ ~Dangling(logCall.ret))

\* What the uncached computeAngularVelocity hook yields at t: the inverse
\* relative quaternion of the hooks' orientations at t and t + step.
HookAngularVelocity(t) ==
    VelocityFrom(Compose(Conjugate(OrientationOfModel(t + StepOfModel)),
                         OrientationOfModel(t)),
                 StepOfModel)

(***************************************************************************)
(* C28: for any sequence of spin, equatorOrientationAtTime and             *)
(* angularVelocityAtTime calls on one CachingRotationModel, every returned *)
(* value equals what the uncached hooks yield for the requested time, and  *)
(* whenever a cache-valid flag is set the stored value was computed for    *)
(* the current last-requested time.                                        *)
(***************************************************************************)
C28_CacheTransparent ==
    /\ rmCall.op = "spin" => rmCall.ret = rm.spinAt[rmCall.t]
    /\ rmCall.op = "equatorOrientationAtTime" => rmCall.ret = rm.equatorAt[rmCall.t]
    /\ rmCall.op = "angularVelocityAtTime" => rmCall.ret = HookAngularVelocity(rmCall.t)
    /\ crm.spinCacheValid => crm.lastSpin = rm.spinAt[crm.lastTime]
    /\ crm.equatorCacheValid => crm.lastEquator = rm.equatorAt[crm.lastTime]
    /\ crm.angularVelocityCacheValid =>
           crm.lastAngularVelocity = HookAngularVelocity(crm.lastTime)

\* An equator orientation served from the cache, after the spin at the same
\* time, that differs from the orientation at the initial time.
C28_Witness ==
    /\ rmCall.op = "equatorOrientationAtTime"
    /\ crm.spinCacheValid
    /\ crm.equatorCacheValid
    /\ rmCall.t = crm.lastTime
    /\ rmCall.ret # rm.equatorAt[RotationInitLastTime]
    /\ rmCall.ret # Identity

RECURSIVE spacingFrom(_, _)

spacingFrom(m, q) == IF m \div q >= Pow2(MantissaBits) THEN spacingFrom(m, 2 * q) ELSE q

\* The distance between neighbouring doubles of magnitude n.
DoubleSpacing(n) == spacingFrom(Abs(n), 1)

\* Every component of a - b is a double.
DifferenceIsDouble(a, b) == \A i \in 1 .. 3 : roundToDouble(a[i] - b[i]) = a[i] - b[i]

\* Every component of a is within the spacing of doubles at the magnitudes
\* of b and c taken together of the component of b.
WithinRounding(a, b, c) ==
    \A i \in 1 .. 3 : Abs(a[i] - b[i]) <= DoubleSpacing(Abs(b[i]) + Abs(c[i]))

====
